---- MODULE Spec2Model ----
(***************************************************************************)
(* State-machine model of the OpenClaw web-chat API bridge:                *)
(*   - RpcClient (apps/api/src/rpc-client.ts): one object that opens       *)
(*     WebSockets to the Gateway, performs the connect handshake, keeps a  *)
(*     pending map of requests and reconnects after a remote close;        *)
(*   - GatewayRpcClientManager (gateway-rpc.ts): the token -> RpcClient    *)
(*     pool with its 5 minute TTL.                                         *)
(* Every action is one run-to-completion segment of the Node.js event     *)
(* loop: a WebSocket event handler, a timer callback, or the part of an    *)
(* async function between two awaits.                                      *)
(***************************************************************************)
EXTENDS Integers, Sequences, FiniteSets, TLC

\* ---- bounds of the model ------------------------------------------------
MaxWs == 3        \* pooled RpcClients (one WebSocket each) created in one run
MaxCalls == 3     \* getConnection() calls in one run
MaxPoolReq == 1   \* request() calls on pooled clients in one run
MaxTicks == 1     \* clock advances, each of one pool TTL
MaxClientWs == 2  \* WebSockets opened by the standalone client in one run
MaxReq == 2       \* request() calls on the standalone client in one run
MaxStreams == 2   \* sendStream() calls in one run
MaxItems == 2     \* values buffered or yielded by the generators of one run
MaxWriters == 2   \* SSE connections of GET /api/events in one run
MaxSubs == 2      \* TokenSubscription objects the forwarder creates in one run
MaxFrames == 2    \* event frames dispatched to forwarder listeners in one run
MaxCallbacks == 2 \* callbacks handed to subscribeEvent in one run
MaxBackoff == 2      \* the largest reconnectMaxRetries of the reconnect runs
MaxRetries == 1   \* options.reconnectMaxRetries of the standalone client

Null == 0
MaxOf(a, b) == IF a > b THEN a ELSE b
Sockets == 1..MaxOf(MaxWs, MaxClientWs)
Clients == 1..MaxOf(MaxWs, 1)
Reqs == 1..MaxOf(MaxReq, MaxPoolReq)
Streams == 1..MaxStreams
SessionKeys == {"K1", "K2"}
Writers == 1..MaxWriters
SmTokens == {"tokA", "tokB"}
Callbacks == 1..MaxCallbacks
EventNames == {"agent", "chat"}
ListenerNames == EventNames \cup {"*"}
SubObjs == 1..MaxSubs
Calls == 1..MaxCalls
Tokens == {"tokA"}

\* gateway-rpc.ts: const CONNECTION_TTL_MS = 5 * 60 * 1000
CONNECTION_TTL_MS == 5 * 60 * 1000
TickMs == CONNECTION_TTL_MS

\* error.code values a Gateway response frame may carry; "NONE" is a frame
\* with ok === false and no error object
ErrorCodes == {"UNAUTHORIZED", "401", "403", "FORBIDDEN", "unauthorized", "NONE"}
\* WebSocket close codes; HTTP statuses of a rejected upgrade
CloseCodes == {1000, 1006, 4001, 4003}
UpgradeStatuses == {401, 403, 500}

VARIABLES
  ws,      \* ws[w]: one WebSocket object with the closure state of its _doConnect
           \* (got: the last non-event frame its 'message' handler was given)
  cl,      \* cl[c]: the fields of one RpcClient
  req,     \* req[r]: one request() call and the promise it returned
  pool,    \* GatewayRpcClientManager.pool: token -> entry
  now,     \* Date.now()
  call,    \* call[k]: one getConnection() invocation
  strm,    \* strm[s]: one sendStream() generator, its closure and its consumer
  fwd,     \* the EventForwarder: its map, its subscription objects, their
           \* listeners and timers, what the SSE writers were given
  sm,      \* the SessionManager: cache and archiveSet, with the Gateway's sessions
  disp,    \* eventListeners of one RpcClient, with the callbacks its last
           \* _dispatchEvent invoked
  web      \* the browser's sessionsStore: its state and its sendMessage call

vars == <<ws, cl, req, pool, now, call, strm, fwd, sm, disp, web>>

NoEntry == [client |-> Null, createdAt |-> 0]

NoWs == [owner |-> Null, st |-> "none", promise |-> "none", connectId |-> Null,
         sent |-> <<>>, connRes |-> "none", got |-> <<>>]
\* the fields of an RpcClient, and what has happened to it so far: wasClosed
\* (close() has been called on it), hsOk (a connect response of it reported
\* success), authFailed (a connect response of it carried an auth-class error),
\* rlog (since its last successful handshake: the factor N of the delay
\* N * reconnectDelayMs of each reconnect it scheduled, and a 0 for each
\* connect() that found it closed)
NoClient == [exists |-> FALSE, token |-> "", ws |-> Null, isConnected |-> FALSE,
             closed |-> FALSE, attempts |-> 0, retries |-> 0, timers |-> 0,
             pending |-> {},
             wasClosed |-> FALSE, hsOk |-> FALSE, authFailed |-> FALSE,
             rlog |-> <<>>]
\* a request(): its id, the socket its frame went out on, how its promise was
\* settled, the id of the response that settled it, and what had happened to
\* the client when it was called (ctx) or while it was pending (atClose)
NoReq == [client |-> Null, id |-> Null, ws |-> Null, outcome |-> "none", by |-> Null,
          ctx |-> {}, atClose |-> FALSE]
\* a getConnection(): where it stands, the client of the entry it found (saw),
\* the client it waits for or was handed (cli), the error it threw (res)
NoCall == [pc |-> "idle", token |-> "", saw |-> Null, cli |-> Null, res |-> "none"]
\* a sendStream(): where its generator stands (pc), its sessionKey, the client
\* it got, its chat.send request, whether its '*' listener is registered, the
\* closure variables buffer, done and error, whether the then/catch of
\* chat.send has run, what it yielded, what the SSE route wrote for it, and
\* whether its consumer returned early
NoStream == [pc |-> "idle", key |-> "", cli |-> Null, req |-> Null, sub |-> FALSE,
             buffer |-> <<>>, done |-> FALSE, error |-> "none", reacted |-> FALSE,
             out |-> <<>>, sse |-> <<>>, early |-> FALSE]
\* a TokenSubscription object: clients, unsubscribe (the listener it would
\* remove), client, healthCheckTimer
NoSub == [clients |-> {}, unsub |-> Null, client |-> Null, timer |-> Null]
\* the EventForwarder. map: the object stored under the token; nsubs: objects
\* created so far; att[k]: the _ensureListener that made getConnection call k,
\* the object it holds and the writer whose subscribe() awaits it; hnd[k]: the
\* handler that _ensureListener k built; lst: the handlers now in a '*' set, in
\* the order they were added; tmr[k]: the setInterval that _ensureListener k
\* started; res[x]: the promise of subscribe(token, x); log[x]: what writer x
\* was given; nframes: event frames received so far; last: the latest of them,
\* if any
NoFwd == [map |-> Null, nsubs |-> 0, subs |-> [o \in SubObjs |-> NoSub],
          att |-> [k \in Calls |-> [st |-> "none", sub |-> Null, wr |-> Null]],
          hnd |-> [k \in Calls |-> [sub |-> Null, client |-> Null]],
          lst |-> <<>>,
          tmr |-> [k \in Calls |-> [sub |-> Null, kind |-> "none", on |-> FALSE]],
          res |-> [x \in Writers |-> "none"],
          log |-> [x \in Writers |-> <<>>],
          nframes |-> 0, last |-> <<>>]
\* the last archive() call and the unarchive() that undid it: the token, the
\* key, what list(token) reported before, whether the key was archived before
NoTrip == [st |-> "none", t |-> "", k |-> "", flags |-> <<>>, was |-> FALSE]
\* the SessionManager: cache (its keys, and the title of each cached key) and
\* archiveSet by token, beside the sessions the Gateway holds (gw), the archive
\* round trip last made (trip) and the operation whose Gateway RPC was rejected
\* in the last step (rpc, "none" when the last step was no such operation)
NoSm == [cache |-> [t \in SmTokens |-> {}], archive |-> [t \in SmTokens |-> {}],
         title |-> [t \in SmTokens |-> [k \in SessionKeys |-> ""]],
         gw |-> {}, trip |-> NoTrip, rpc |-> "none"]
\* eventListeners of one RpcClient (names: the keys of the Map; reg[name]: the
\* callbacks of the Set under that name, in insertion order), the name and
\* callback of the last unsubscribe that found its Set (gone), and its last
\* _dispatchEvent: the event name of the frame, the callbacks registered for it
\* at that moment (due), the callbacks invoked, in order, and the unsubscribe
\* that came last before it (after)
NoDisp == [names |-> {}, reg |-> [n \in ListenerNames |-> <<>>], gone |-> <<>>,
           name |-> "", due |-> {}, invoked |-> <<>>, after |-> <<>>]

\* the web store: currentSessionKey (cur), sendingMessage, streamingSessionKey
\* (skey), whether streamingText is non-empty (text), transportMode (mode),
\* eventStreamConnected; and of its sendMessage call: where it stands (pc),
\* its const key, streamReceivedChunk, streamFailedBeforeChunk, whether
\* pushTimeout is armed, what it returned (ret), whether its
\* POST /messages/stream was answered with an open stream (opened) and how
\* many POST /messages it made (posts)
NoWeb == [cur |-> "", sending |-> FALSE, skey |-> "", text |-> FALSE, mode |-> "idle",
          connected |-> FALSE, pc |-> "idle", key |-> "", gotChunk |-> FALSE,
          failedBefore |-> FALSE, timer |-> FALSE, ret |-> "none",
          opened |-> FALSE, posts |-> 0]

\* number of WebSockets created so far (new WebSocket(...) hands out the next one)
NumWs == Cardinality({w \in Sockets : ws[w].st # "none"})
NumClients == Cardinality({c \in Clients : cl[c].exists})
NumReqs == Cardinality({r \in Reqs : req[r].outcome # "none"})

\* ---- pure helpers ---------------------------------------------------------

\* a narrower classification, to show what C9 owes to isAuthErrorCode
isAuthErrorCodeNarrow(code) == code = "UNAUTHORIZED" \/ code = "401"

\* isAuthErrorCode(code): String(code) is one of the four auth codes
isAuthErrorCode(code) ==
  code = "UNAUTHORIZED" \/ code = "401" \/ code = "403" \/ code = "FORBIDDEN"

\* the GatewayError code built from a failed connect response
ConnectErrorOf(code) ==
  IF isAuthErrorCode(code) THEN "UNAUTHORIZED" ELSE "GATEWAY_CONNECT_FAILED"

\* the GatewayError code built from a failed RPC response
RpcErrorOf(code) ==
  IF isAuthErrorCode(code) THEN "UNAUTHORIZED" ELSE "GATEWAY_RPC_ERROR"

\* ws 'close' handler: 4001 / 4003 are the Gateway's auth rejections
CloseIsAuth(code) == code = 4001 \/ code = 4003

CloseErrorOf(code) ==
  IF CloseIsAuth(code) THEN "UNAUTHORIZED" ELSE "GATEWAY_CONNECT_FAILED"

\* ws 'unexpected-response' handler
UpgradeErrorOf(status) ==
  IF status = 401 \/ status = 403 THEN "UNAUTHORIZED" ELSE "GATEWAY_CONNECT_FAILED"

\* `req_${crypto.randomUUID()}`: an id never handed out before. The n-th
\* socket's connect request and the n-th request() draw from disjoint ranges.
ConnectIdOf(w) == w
RequestIdOf(r) == MaxWs + MaxClientWs + r

\* the auth set of the Gateway protocol, as the Gateway means it
AuthCodes == {"UNAUTHORIZED", "401", "403", "FORBIDDEN"}

\* what the Gateway answered to a connect request
VerdictOf(code) ==
  IF code = "ok" THEN "ok" ELSE IF code \in AuthCodes THEN "auth" ELSE "other"

\* doFail(err) of socket w's _doConnect closure: settles the promise once
DoFail(wss, w, err) ==
  IF wss[w].promise = "pending" THEN [wss EXCEPT ![w].promise = err] ELSE wss

\* connectPromise.catch(() => this.pool.delete(token)) of getConnection: runs
\* in the microtask that follows the rejection of a pooled client's connect()
PoolCatch(w) ==
  IF ws[w].promise = "pending" /\ cl[ws[w].owner].token \in Tokens
    THEN [pool EXCEPT ![cl[ws[w].owner].token] = NoEntry]
    ELSE pool

\* a socket after its 'close' event: no handler of it runs again, so of its
\* closure only the promise is kept, and only where a getConnection may still
\* await it (the connectPromise of a pooled client)
Discard(wss, w) ==
  [wss EXCEPT ![w].st = "closed", ![w].connectId = Null, ![w].sent = <<>>,
              ![w].connRes = "none", ![w].got = <<>>,
              ![w].promise = IF cl[wss[w].owner].token = "" THEN "none" ELSE @]

\* a _rejectAllPending that rejects nothing, to show what C7 owes to it
RejectNone(rq, c, err) == rq

\* _rejectAllPending(err): reject and clear every pending request of client c
RejectAllPending(rq, c, err) ==
  [r \in Reqs |-> IF r \in cl[c].pending THEN [rq[r] EXCEPT !.outcome = err] ELSE rq[r]]

\* WebSocket.close() seen from the socket: a socket still in the opening
\* handshake is aborted (error and close are emitted on the next tick), an open
\* one starts the closing handshake, any other is left as it is
WsAfterLocalClose(st) ==
  CASE st \in {"connecting", "rejected"} -> "aborting"
    [] st = "open" -> "closing"
    [] OTHER -> st

\* microtasks run before the next I/O event or timer: an awaiting
\* getConnection whose promise is settled resumes first
CallReady(k) ==
  /\ call[k].pc \in {"awaitEntry", "awaitNew", "awaitVerify"}
  /\ \E w \in Sockets : ws[w].owner = call[k].cli /\ ws[w].promise # "pending"

\* process.nextTick runs before anything else: an aborted socket emits its
\* error and close first
Quiet == \A w \in Sockets : ws[w].st # "aborting"

\* an I/O event or a timer callback may run
EventLoopIdle == Quiet /\ \A k \in Calls : ~CallReady(k)

\* ---- RpcClient ------------------------------------------------------------

\* new WebSocket(this.wsUrl, wsOptions) with settled = false, connectId = null
NewSocket(c) ==
  [owner |-> c, st |-> "connecting", promise |-> "pending", connectId |-> Null,
   sent |-> <<>>, connRes |-> "none", got |-> <<>>]

\* _doConnect(): a new WebSocket replaces this.ws, whatever this.ws held
DoConnect(cls, c) == [cls EXCEPT ![c].ws = NumWs + 1]

\* connect(): the _closed branch, then _doConnect()
ConnectReset(c) ==
  [cl EXCEPT ![c].closed = FALSE,
             ![c].attempts = IF cl[c].closed THEN 0 ELSE @,
             ![c].rlog = IF cl[c].closed THEN Append(@, 0) ELSE @]

\* connect() called by the owner of a standalone client, not yet connected
Connect(c) ==
  /\ Quiet
  /\ cl[c].exists /\ cl[c].token = ""
  /\ ~cl[c].isConnected
  /\ NumWs < MaxClientWs
  /\ ws' = [ws EXCEPT ![NumWs + 1] = NewSocket(c)]
  /\ cl' = DoConnect(ConnectReset(c), c)
  /\ UNCHANGED <<req, pool, now, call, strm, fwd, sm, disp, web>>

\* ws.on('open'): the connect request is the frame sent by the open handler
WsOpen(w) ==
  /\ EventLoopIdle
  /\ ws[w].st = "connecting"
  /\ ws' = [ws EXCEPT ![w].st = "open",
                      ![w].connectId = ConnectIdOf(w),
                      ![w].sent = Append(@, [id |-> ConnectIdOf(w), method |-> "connect"])]
  /\ UNCHANGED <<cl, req, pool, now, call, strm, fwd, sm, disp, web>>

\* errorObj = msg.error ?? { code: <default> }: the code the handler classifies
ErrorObjCode(code, default) == IF code = "NONE" THEN default ELSE code

\* doSucceed(): only the first settlement of the socket's promise counts
DoSucceed(cls, w) ==
  IF ws[w].promise = "pending"
    THEN [cls EXCEPT ![ws[w].owner].isConnected = TRUE, ![ws[w].owner].attempts = 0,
                     ![ws[w].owner].rlog = <<>>]
    ELSE cls

\* the client's record of the connect responses it has processed
NoteHandshake(cls, c, code) ==
  [cls EXCEPT ![c].hsOk = @ \/ VerdictOf(code) = "ok",
              ![c].authFailed = @ \/ VerdictOf(code) = "auth"]

\* ws.on('message') with a res frame whose id is the socket's connectId
ConnectResponse(w, code) ==
  /\ EventLoopIdle
  /\ ws[w].st \in {"open", "closing"}
  /\ ws[w].connectId # Null
  /\ LET c == ws[w].owner
         err == ConnectErrorOf(ErrorObjCode(code, "CONNECT_FAILED"))
     IN IF code = "ok"
          THEN /\ ws' = [ws EXCEPT ![w].connectId = Null, ![w].connRes = VerdictOf(code),
                                   ![w].promise = IF @ = "pending" THEN "resolved" ELSE @]
               /\ cl' = NoteHandshake(DoSucceed(cl, w), c, code)
               /\ UNCHANGED <<req, pool, web>>
          ELSE /\ ws' = [DoFail(ws, w, err) EXCEPT ![w].connectId = Null,
                                                   ![w].connRes = VerdictOf(code)]
               /\ pool' = PoolCatch(w)
               /\ req' = RejectAllPending(req, c, err)
               /\ cl' = NoteHandshake([cl EXCEPT ![c].pending = {}], c, code)
  /\ UNCHANGED <<now, call, strm, fwd, sm, disp, web>>

\* a lookup that ignores the id, to show what C5 owes to the id match
LookupAnyPending(c, id) == cl[c].pending

\* this.pending.get(msg.id): the pending request stored under that id
LookupPending(c, id) == {p \in cl[c].pending : req[p].id = id}

\* ws.on('message') with a res frame answering the frame of request r. The
\* Gateway accepts no RPC on a socket whose connect it has not accepted, so a
\* success only comes on a socket with an accepted connect.
RequestResponse(r, code) ==
  /\ EventLoopIdle
  /\ req[r].ws # Null
  /\ ws[req[r].ws].st \in {"open", "closing"}
  /\ code = "ok" => ws[req[r].ws].connRes = "ok"
  /\ LET c == ws[req[r].ws].owner
         hit == LookupPending(c, req[r].id)
         out == IF code = "ok" THEN "ok" ELSE RpcErrorOf(ErrorObjCode(code, "RPC_ERROR"))
     IN IF hit = {}
          THEN UNCHANGED <<req, cl, web>>
          ELSE LET p == CHOOSE q \in hit : TRUE
               IN /\ req' = [req EXCEPT ![p].outcome = out, ![p].by = req[r].id]
                  /\ cl' = [cl EXCEPT ![c].pending = @ \ {p}]
  /\ UNCHANGED <<ws, pool, now, call, strm, fwd, sm, disp, web>>

\* request(): the guard of its first statement
RequestReady(c) == cl[c].isConnected /\ cl[c].ws # Null

\* this.ws.send(frame) by readyState: "sent", "throws" (CONNECTING always
\* throws) or "dropped" (CLOSING/CLOSED: the ws library, by its version,
\* throws or drops the frame without an error)
SendResults(st) ==
  CASE st = "open" -> {"sent"}
    [] st \in {"connecting", "rejected"} -> {"throws"}
    [] OTHER -> {"throws", "dropped"}

\* what had happened to client c when a request() is called on it
ContextOf(c) ==
  (IF cl[c].closed THEN {"closed"} ELSE {})
    \cup (IF cl[c].wasClosed THEN {"wasClosed"} ELSE {})
    \cup (IF cl[c].hsOk THEN {"hsOk"} ELSE {})
    \cup (IF cl[c].authFailed THEN {"authFailed"} ELSE {})

\* request(method, params) on client c: what it does to the requests, the
\* client and its socket
RequestEffect(c) ==
  /\ NumReqs < Cardinality(Reqs)
  /\ LET r == NumReqs + 1
         w == cl[c].ws
     IN IF ~RequestReady(c)
          THEN /\ req' = [req EXCEPT ![r] = [NoReq EXCEPT !.client = c,
                                               !.ctx = ContextOf(c),
                                               !.outcome = "GATEWAY_CONNECT_FAILED"]]
               /\ UNCHANGED <<ws, cl, web>>
          ELSE \E res \in SendResults(ws[w].st) :
               /\ req' = [req EXCEPT ![r] =
                    [NoReq EXCEPT !.client = c, !.id = RequestIdOf(r),
                                  !.ctx = ContextOf(c),
                                  !.ws = IF res = "sent" THEN w ELSE Null,
                                  !.outcome = IF res = "throws" THEN "GATEWAY_RPC_ERROR"
                                                               ELSE "pending"]]
               /\ cl' = IF res = "throws" THEN cl ELSE [cl EXCEPT ![c].pending = @ \cup {r}]
               /\ ws' = IF res = "sent"
                          THEN [ws EXCEPT ![w].sent = Append(@, [id |-> RequestIdOf(r), method |-> "rpc"])]
                          ELSE ws

\* request() called by the owner of a standalone client
Request(c) ==
  /\ Quiet
  /\ cl[c].exists /\ cl[c].token = ""
  /\ NumReqs < MaxReq
  /\ RequestEffect(c)
  /\ UNCHANGED <<pool, now, call, strm, fwd, sm, disp, web>>

\* a timeout callback that rejects but keeps the pending entry, to show what
\* C12 owes to this.pending.delete(id)
RequestTimeoutKeepsEntry(r) ==
  /\ EventLoopIdle
  /\ req[r].outcome = "pending" /\ r \in cl[req[r].client].pending
  /\ req' = [req EXCEPT ![r].outcome = "GATEWAY_RPC_ERROR"]
  /\ UNCHANGED <<ws, cl, pool, now, call, strm, fwd, sm, disp, web>>

\* the setTimeout of request(): the entry is removed and the promise rejected
RequestTimeout(r) ==
  /\ EventLoopIdle
  /\ req[r].outcome = "pending" /\ r \in cl[req[r].client].pending
  /\ req' = [req EXCEPT ![r].outcome = "GATEWAY_RPC_ERROR"]
  /\ cl' = [cl EXCEPT ![req[r].client].pending = @ \ {r}]
  /\ UNCHANGED <<ws, pool, now, call, strm, fwd, sm, disp, web>>

\* close() applied to the client table and the socket table
CloseClient(cls, c) ==
  [cls EXCEPT ![c].closed = TRUE, ![c].pending = {}, ![c].ws = Null,
              ![c].wasClosed = TRUE]

\* _rejectAllPending as close() calls it; the requests pending at that
\* moment are marked
CloseRejects(rq, c) ==
  [r \in Reqs |->
     IF r \in cl[c].pending
       THEN [RejectAllPending(rq, c, "GATEWAY_CONNECT_FAILED")[r] EXCEPT !.atClose = TRUE]
       ELSE rq[r]]

CloseSocketOf(wss, c) ==
  IF cl[c].ws = Null THEN wss
  ELSE [wss EXCEPT ![cl[c].ws].st = WsAfterLocalClose(@)]

\* close() called by the owner of a standalone client
Close(c) ==
  /\ Quiet
  /\ cl[c].exists /\ cl[c].token = ""
  /\ cl' = CloseClient(cl, c)
  /\ ws' = CloseSocketOf(ws, c)
  /\ req' = CloseRejects(req, c)
  /\ UNCHANGED <<pool, now, call, strm, fwd, sm, disp, web>>

\* ws.on('unexpected-response'): the Gateway refuses the upgrade with an HTTP
\* status; the handler neither aborts the request nor closes the socket
WsUnexpectedResponse(w, status) ==
  /\ EventLoopIdle
  /\ ws[w].st = "connecting"
  /\ ws' = [DoFail(ws, w, UpgradeErrorOf(status)) EXCEPT ![w].st = "rejected"]
  /\ pool' = PoolCatch(w)
  /\ req' = RejectAllPending(req, ws[w].owner, UpgradeErrorOf(status))
  /\ cl' = [cl EXCEPT ![ws[w].owner].pending = {}]
  /\ UNCHANGED <<now, call, strm, fwd, sm, disp, web>>

\* ws.on('error'): a failed or timed-out opening handshake, or a broken open
\* socket; the close event follows
WsError(w) ==
  /\ EventLoopIdle
  /\ ws[w].st \in {"connecting", "rejected", "open"}
  /\ ws' = [DoFail(ws, w, "GATEWAY_CONNECT_FAILED") EXCEPT ![w].st = "errored"]
  /\ pool' = PoolCatch(w)
  /\ UNCHANGED <<cl, req, now, call, strm, fwd, sm, disp, web>>

\* a constant delay, to show what C32 owes to the factor
ReconnectFactorOne(n) == 1

\* delay = reconnectDelayMs * reconnectAttempts, read after the increment: the
\* factor of reconnectDelayMs
ReconnectFactor(n) == n

\* the reconnect condition of the close handler
ShouldReconnect(c, code) ==
  ~cl[c].closed /\ ~CloseIsAuth(code) /\ cl[c].attempts < cl[c].retries

\* ws.on('close') applied to the client table
CloseHandler(c, code) ==
  [cl EXCEPT ![c].isConnected = FALSE,
             ![c].ws = Null,
             ![c].pending = {},
             ![c].attempts = IF ShouldReconnect(c, code) THEN @ + 1 ELSE @,
             ![c].timers = IF ShouldReconnect(c, code) THEN @ + 1 ELSE @,
             ![c].rlog = IF ShouldReconnect(c, code)
                           THEN Append(@, ReconnectFactor(cl[c].attempts + 1)) ELSE @]

\* ws.on('close'): a remote close of an open socket, the end of a closing
\* handshake, or the close that follows an error (code 1006)
WsClose(w, code) ==
  /\ EventLoopIdle
  /\ ws[w].st \in {"open", "closing", "errored"}
  /\ ws[w].st = "errored" => code = 1006
  /\ ws' = Discard(DoFail(ws, w, CloseErrorOf(code)), w)
  /\ pool' = PoolCatch(w)
  /\ req' = RejectAllPending(req, ws[w].owner, CloseErrorOf(code))
  /\ cl' = CloseHandler(ws[w].owner, code)
  /\ UNCHANGED <<now, call, strm, fwd, sm, disp, web>>

\* a socket closed during its opening handshake: 'error', then 'close' with
\* 1006, both on the next tick
WsAbort(w) ==
  /\ ws[w].st = "aborting"
  /\ ws' = Discard(DoFail(ws, w, "GATEWAY_CONNECT_FAILED"), w)
  /\ pool' = PoolCatch(w)
  /\ req' = RejectAllPending(req, ws[w].owner, "GATEWAY_CONNECT_FAILED")
  /\ cl' = CloseHandler(ws[w].owner, 1006)
  /\ UNCHANGED <<now, call, strm, fwd, sm, disp, web>>

\* a timer callback without its guard, to show what C8 owes to it
TimerAlwaysConnects(c) == TRUE

\* the guard inside the reconnect timer's callback
TimerMayConnect(c) == ~cl[c].closed

\* the setTimeout callback scheduled by the close handler
ReconnectTimer(c) ==
  /\ EventLoopIdle
  /\ cl[c].timers > 0
  /\ IF TimerMayConnect(c)
       THEN /\ NumWs < MaxClientWs
            /\ ws' = [ws EXCEPT ![NumWs + 1] = NewSocket(c)]
            /\ cl' = DoConnect([cl EXCEPT ![c].timers = @ - 1], c)
       ELSE /\ ws' = ws
            /\ cl' = [cl EXCEPT ![c].timers = @ - 1]
  /\ UNCHANGED <<req, pool, now, call, strm, fwd, sm, disp, web>>

\* ---- a standalone RpcClient driven by its owner ---------------------------

InitClient ==
  /\ ws = [w \in Sockets |-> NoWs]
  /\ cl = [c \in Clients |-> IF c = 1 THEN [NoClient EXCEPT !.exists = TRUE,
                                                          !.retries = MaxRetries]
                                     ELSE NoClient]
  /\ req = [r \in Reqs |-> NoReq]
  /\ pool = [t \in Tokens |-> NoEntry]
  /\ now = 0
  /\ call = [k \in Calls |-> NoCall]
  /\ strm = [s \in Streams |-> NoStream]
  /\ fwd = NoFwd
  /\ sm = NoSm
  /\ disp = NoDisp
  /\ web = NoWeb

NextClient ==
  \/ \E c \in Clients : Connect(c)
  \/ \E c \in Clients : Request(c)
  \/ \E c \in Clients : Close(c)
  \/ \E c \in Clients : ReconnectTimer(c)
  \/ \E w \in Sockets : WsOpen(w)
  \/ \E w \in Sockets : WsError(w)
  \/ \E w \in Sockets : WsAbort(w)
  \/ \E w \in Sockets, s \in UpgradeStatuses : WsUnexpectedResponse(w, s)
  \/ \E w \in Sockets, code \in CloseCodes : WsClose(w, code)
  \/ \E w \in Sockets, code \in {"ok"} \cup ErrorCodes : ConnectResponse(w, code)
  \/ \E r \in Reqs, code \in {"ok"} \cup ErrorCodes : RequestResponse(r, code)
  \/ \E r \in Reqs : RequestTimeout(r)

SpecClient == InitClient /\ [][NextClient]_vars

\* handshakeTimeout: connectTimeoutMs (line 190): the ws library aborts an
\* opening handshake that has not completed in time
HandshakeTimeout(w) == ws[w].st = "connecting" /\ WsError(w)

\* the 'close' event that the ws library emits after an 'error'
CloseAfterError(w) == ws[w].st = "errored" /\ WsClose(w, 1006)

\* the 'close' event that ends a closing handshake started by close(): the ws
\* library destroys the socket when the peer does not answer the close frame
ClosingCompletes(w) ==
  ws[w].st = "closing" /\ \E code \in CloseCodes : WsClose(w, code)

\* the same client with the timers that the code and the ws library arm:
\* request timers fire, the opening handshake is bounded by handshakeTimeout,
\* a closing handshake ends, and next-tick callbacks run. Nothing obliges the
\* Gateway to send a frame on an open socket.
SpecClientFair ==
  /\ SpecClient
  /\ \A r \in Reqs : WF_vars(RequestTimeout(r))
  /\ \A w \in Sockets : WF_vars(WsAbort(w))
  /\ \A w \in Sockets : WF_vars(HandshakeTimeout(w))
  /\ \A w \in Sockets : WF_vars(CloseAfterError(w))
  /\ \A w \in Sockets : WF_vars(ClosingCompletes(w))

\* ---- GatewayRpcClientManager: the connection pool -----------------------------

\* a TTL test that lets the entry live one instant longer, to show what C30
\* owes to the >= of the code
StaleAfter(e) == now - e.createdAt > CONNECTION_TTL_MS

\* now - entry.createdAt >= CONNECTION_TTL_MS
Stale(e) == now - e.createdAt >= CONNECTION_TTL_MS

\* _makeClient(wsUrl, token): a pooled client never reconnects by itself
MakeClient(t, w) ==
  [NoClient EXCEPT !.exists = TRUE, !.token = t, !.ws = w, !.retries = 0]

\* the promise returned by the one connect() call made on pooled client c
ConnectPromise(c) == ws[CHOOSE w \in Sockets : ws[w].owner = c].promise

\* lines 338-351 of getConnection, after `old` (Null if none) has been closed
\* and its entry deleted: build a client, start connect(), store the entry,
\* then await the handshake
Replace(k, t, old) ==
  /\ NumWs < MaxWs
  /\ LET c == NumClients + 1
         w == NumWs + 1
     IN /\ cl' = [(IF old = Null THEN cl ELSE CloseClient(cl, old))
                    EXCEPT ![c] = MakeClient(t, w)]
        /\ ws' = [(IF old = Null THEN ws ELSE CloseSocketOf(ws, old))
                    EXCEPT ![w] = NewSocket(c)]
        /\ req' = IF old = Null THEN req ELSE CloseRejects(req, old)
        /\ pool' = [pool EXCEPT ![t] = [client |-> c, createdAt |-> now]]
        /\ call' = [call EXCEPT ![k] = [pc |-> "awaitNew", token |-> t, saw |-> old,
                                        cli |-> c, res |-> "none"]]

\* whether getConnection waits for the entry it found (lines 325-329)
WaitsForEntry(e) == e.client # Null /\ ~Stale(e)

\* getConnection(token) up to its first await
GetConnStart(k, t) ==
  /\ Quiet
  /\ call[k].pc = "idle"
  /\ \A j \in Calls : j < k => call[j].pc # "idle"
  /\ IF WaitsForEntry(pool[t])
       THEN /\ call' = [call EXCEPT ![k] = [pc |-> "awaitEntry", token |-> t,
                                            saw |-> pool[t].client,
                                            cli |-> pool[t].client, res |-> "none"]]
            /\ UNCHANGED <<ws, cl, req, pool, web>>
       ELSE Replace(k, t, pool[t].client)
  /\ UNCHANGED <<now, strm, fwd, sm, disp, web>>

\* whether the entry waited for is handed out (line 331)
EntryUsable(c) == cl[c].isConnected

\* an await that swallows the rejection, to show what C4 owes to the await
AwaitSwallows(c) == "continues"

\* `await connectPromise`: continues on fulfilment, throws the rejection
AwaitOutcome(c) == IF ConnectPromise(c) = "resolved" THEN "continues" ELSE "throws"

\* getConnection resumed by the settlement of the promise it awaits. Its
\* caller continues in the same run of microtasks: the EventForwarder keeps the
\* client, gatewayRpc.request and sendStream call client.request() at once.
GetConnResume(k) ==
  /\ Quiet
  /\ CallReady(k)
  /\ call[k].pc \in {"awaitEntry", "awaitNew"}
  /\ LET c == call[k].cli
         p == ConnectPromise(c)
     IN IF AwaitOutcome(c) = "throws"
          THEN /\ call' = [call EXCEPT ![k].pc = "failed", ![k].res = p]
               /\ UNCHANGED <<ws, cl, req, pool, web>>
          ELSE IF call[k].pc = "awaitNew" \/ EntryUsable(c)
            THEN /\ call' = [call EXCEPT ![k].pc = "done", ![k].res = "client"]
                 /\ pool' = pool
                 /\ \/ UNCHANGED <<ws, cl, req, web>>
                    \/ NumReqs < MaxPoolReq /\ RequestEffect(c)
            ELSE Replace(k, call[k].token, c)
  /\ UNCHANGED <<now, strm, fwd, sm, disp, web>>

\* closeToken(token)
CloseToken(t) ==
  /\ Quiet
  /\ pool[t].client # Null
  /\ cl' = CloseClient(cl, pool[t].client)
  /\ ws' = CloseSocketOf(ws, pool[t].client)
  /\ req' = CloseRejects(req, pool[t].client)
  /\ pool' = [pool EXCEPT ![t] = NoEntry]
  /\ UNCHANGED <<now, call, strm, fwd, sm, disp, web>>

\* time passes
Tick ==
  /\ EventLoopIdle
  /\ now < MaxTicks * TickMs
  /\ now' = now + TickMs
  /\ UNCHANGED <<ws, cl, req, pool, call, strm, fwd, sm, disp, web>>

Init ==
  /\ ws = [w \in Sockets |-> NoWs]
  /\ cl = [c \in Clients |-> NoClient]
  /\ req = [r \in Reqs |-> NoReq]
  /\ pool = [t \in Tokens |-> NoEntry]
  /\ now = 0
  /\ call = [k \in Calls |-> NoCall]
  /\ strm = [s \in Streams |-> NoStream]
  /\ fwd = NoFwd
  /\ sm = NoSm
  /\ disp = NoDisp
  /\ web = NoWeb

Next ==
  \/ \E k \in Calls, t \in Tokens : GetConnStart(k, t)
  \/ \E k \in Calls : GetConnResume(k)
  \/ \E t \in Tokens : CloseToken(t)
  \/ Tick
  \/ \E w \in Sockets : WsOpen(w)
  \/ \E w \in Sockets : WsError(w)
  \/ \E w \in Sockets : WsAbort(w)
  \/ \E w \in Sockets, s \in UpgradeStatuses : WsUnexpectedResponse(w, s)
  \/ \E w \in Sockets, code \in CloseCodes : WsClose(w, code)
  \/ \E w \in Sockets, code \in {"ok"} \cup ErrorCodes : ConnectResponse(w, code)
  \/ \E r \in Reqs, code \in {"ok"} \cup ErrorCodes : RequestResponse(r, code)
  \/ \E r \in Reqs : RequestTimeout(r)

Spec == Init /\ [][Next]_vars

\* ---- verifyToken: a one-shot client beside the pool -----------------------

\* the client built by verifyToken: not pooled, reconnectMaxRetries 0
OneShotClient == [NoClient EXCEPT !.exists = TRUE, !.token = "oneshot", !.retries = 0]

\* a verifyToken that reports every failure as false, to show what C15 owes
\* to the re-raise
VerifyResultSwallows(p) == IF p = "resolved" THEN "true" ELSE "false"

\* try { await client.connect(); return true } catch (err) { if UNAUTHORIZED
\* return false; throw err }: the value returned, or the code of the error
VerifyResult(p) ==
  CASE p = "resolved" -> "true"
    [] p = "UNAUTHORIZED" -> "false"
    [] OTHER -> p

\* verifyToken(token) up to its await
VerifyStart(k, t) ==
  /\ Quiet
  /\ call[k].pc = "idle"
  /\ \A j \in Calls : j < k => call[j].pc # "idle"
  /\ NumWs < MaxWs
  /\ LET c == NumClients + 1
         w == NumWs + 1
     IN /\ cl' = DoConnect([cl EXCEPT ![c] = OneShotClient], c)
        /\ ws' = [ws EXCEPT ![w] = NewSocket(c)]
        /\ call' = [call EXCEPT ![k] = [pc |-> "awaitVerify", token |-> t, saw |-> Null,
                                        cli |-> c, res |-> "none"]]
  /\ UNCHANGED <<req, pool, now, strm, fwd, sm, disp, web>>

\* verifyToken resumed by the settlement of connect(): the result, and the
\* client.close() of its finally block
VerifyResume(k) ==
  /\ Quiet
  /\ CallReady(k)
  /\ call[k].pc = "awaitVerify"
  /\ LET c == call[k].cli
     IN /\ call' = [call EXCEPT ![k].pc = "verified",
                                ![k].res = VerifyResult(ConnectPromise(c))]
        /\ cl' = CloseClient(cl, c)
        /\ ws' = CloseSocketOf(ws, c)
        /\ req' = CloseRejects(req, c)
  /\ UNCHANGED <<pool, now, strm, fwd, sm, disp, web>>

NextVerify ==
  \/ \E k \in Calls, t \in Tokens : VerifyStart(k, t)
  \/ \E k \in Calls : VerifyResume(k)
  \/ \E k \in Calls, t \in Tokens : GetConnStart(k, t)
  \/ \E k \in Calls : GetConnResume(k)
  \/ \E w \in Sockets : WsOpen(w)
  \/ \E w \in Sockets : WsError(w)
  \/ \E w \in Sockets : WsAbort(w)
  \/ \E w \in Sockets, s \in UpgradeStatuses : WsUnexpectedResponse(w, s)
  \/ \E w \in Sockets, code \in CloseCodes : WsClose(w, code)
  \/ \E w \in Sockets, code \in {"ok"} \cup ErrorCodes : ConnectResponse(w, code)

SpecVerify == Init /\ [][NextVerify]_vars

\* ---- sendStream: the generator, its '*' listener and the SSE route --------

\* the pool once a first getConnection(token) has returned its client
InitStream ==
  /\ ws = [w \in Sockets |-> IF w = 1
             THEN [NewSocket(1) EXCEPT !.st = "open", !.promise = "resolved",
                                       !.sent = <<[id |-> ConnectIdOf(1), method |-> "connect"]>>,
                                       !.connRes = "ok"]
             ELSE NoWs]
  /\ cl = [c \in Clients |-> IF c = 1
             THEN [MakeClient("tokA", 1) EXCEPT !.isConnected = TRUE, !.hsOk = TRUE]
             ELSE NoClient]
  /\ req = [r \in Reqs |-> NoReq]
  /\ pool = [t \in Tokens |-> [client |-> 1, createdAt |-> 0]]
  /\ now = 0
  /\ call = [k \in Calls |-> IF k = 1
               THEN [NoCall EXCEPT !.pc = "done", !.token = "tokA", !.cli = 1,
                                   !.res = "client"]
               ELSE NoCall]
  /\ strm = [s \in Streams |-> NoStream]
  /\ fwd = NoFwd
  /\ sm = NoSm
  /\ disp = NoDisp
  /\ web = NoWeb

\* a finally block that forgets to unsubscribe, to show what C16 owes to it
FinallyKeepsListener(st) == st

\* finally { unsubscribe() }: the callback leaves the client's '*' set
Finally(st) == [st EXCEPT !.sub = FALSE]

\* a generator that yields the value buffered last, to show what C21 owes to
\* buffer.shift()
RunGenLast(st) ==
  IF Len(st.buffer) > 0
    THEN [st EXCEPT !.pc = "yielded", !.out = Append(@, st.buffer[Len(st.buffer)]),
                    !.buffer = SubSeq(@, 1, Len(@) - 1)]
    ELSE IF st.done
      THEN Finally([st EXCEPT !.pc = IF st.error # "none" THEN "threw" ELSE "returned"])
      ELSE [st EXCEPT !.pc = "awaiting"]

\* the generator runs from where it was resumed to its next suspension: the
\* while loop yields the head of the buffer, or leaves when done (throwing the
\* error if there is one), or awaits the next notify()
RunGen(st) ==
  IF Len(st.buffer) > 0
    THEN [st EXCEPT !.pc = "yielded", !.out = Append(@, Head(st.buffer)),
                    !.buffer = Tail(@)]
    ELSE IF st.done
      THEN Finally([st EXCEPT !.pc = IF st.error # "none" THEN "threw" ELSE "returned"])
      ELSE [st EXCEPT !.pc = "awaiting"]

\* the for-await of POST /stream, after the generator has run: a yielded chunk
\* or done is written as that SSE event, a throw is written as an error event
RouteWrites(st) ==
  CASE st.pc = "yielded" -> [st EXCEPT !.sse = Append(@, st.out[Len(st.out)].type)]
    [] st.pc = "threw" -> [st EXCEPT !.sse = Append(@, "error")]
    [] OTHER -> st

\* the generator resumed, with its consumer
Resume(st) == RouteWrites(RunGen(st))

\* notify(): the resolver is set exactly while the generator awaits
Notify(st) == IF st.pc = "awaiting" THEN Resume(st) ELSE st

\* a listener without the sessionKey filter, to show what C20 owes to it
AcceptsAll(st, f) == TRUE

\* the filter of the listener: a frame that carries another sessionKey is dropped
Accepts(st, f) == ~(f.key # "none" /\ f.key # st.key)

\* the '*' callback of sendStream applied to one event frame
OnEvent(st, f) ==
  IF ~Accepts(st, f)
    THEN st
    ELSE CASE f.kind = "chunk" ->
                Notify([st EXCEPT !.buffer = Append(@, [type |-> "chunk", key |-> f.key,
                                                        src |-> f.src, from |-> "event"])])
           [] f.kind = "final" ->
                Notify([st EXCEPT !.buffer = Append(@, [type |-> "done", key |-> f.key,
                                                        src |-> f.src, from |-> "event"]),
                                  !.done = TRUE])
           [] OTHER -> st

\* a callback that is registered only once chat.send has settled, to show
\* what C39 owes to the order of subscribeEvent and request
ListeningLate(s, c) == strm[s].sub /\ strm[s].cli = c /\ strm[s].reacted

\* the callbacks in the '*' set of client c
Listening(s, c) == strm[s].sub /\ strm[s].cli = c

\* the then/catch of chat.send is due: microtasks run before any I/O event
ReactReady(s) ==
  /\ strm[s].req # Null /\ ~strm[s].reacted
  /\ req[strm[s].req].outcome \notin {"none", "pending"}

MicrotasksDone == \A s \in Streams : ~ReactReady(s)

\* the chat.send requests sent on socket w for session key
SentFor(w, key) ==
  {r \in Reqs : req[r].ws = w /\ \E s \in Streams : strm[s].req = r /\ strm[s].key = key}

\* the event frames the Gateway may push on socket w: an agent delta (chunk), a
\* chat final, or anything else; with or without a sessionKey; src is the
\* chat.send whose run produced the frame (Null: none of the requests here)
Frames(w) ==
  {f \in [kind : {"chunk", "final", "other"}, key : SessionKeys \cup {"none"},
          src : Reqs \cup {Null}] :
     IF SentFor(w, f.key) = {} THEN f.src = Null ELSE f.src \in SentFor(w, f.key)}

\* the values the generators of S have buffered or yielded so far
RECURSIVE NumItems(_)
NumItems(S) ==
  IF S = {}
    THEN 0
    ELSE LET s == CHOOSE x \in S : TRUE
         IN Len(strm[s].out) + Len(strm[s].buffer) + NumItems(S \ {s})

\* the callback of stream s is called with frame f and buffers a value
Takes(s, c, f) == Listening(s, c) /\ Accepts(strm[s], f) /\ f.kind # "other"

\* POST /stream: the status event is written, then sendStream runs up to its
\* first await in the loop: getConnection returns the live pooled client, the
\* listener is subscribed, chat.send is requested
StreamStart(s, key) ==
  /\ EventLoopIdle /\ MicrotasksDone
  /\ strm[s].pc = "idle"
  /\ \A j \in Streams : j < s => strm[j].pc # "idle"
  /\ \E t \in Tokens :
       LET c == pool[t].client
       IN /\ WaitsForEntry(pool[t])
          /\ ConnectPromise(c) = "resolved" /\ EntryUsable(c)
          /\ RequestEffect(c)
          /\ strm' = [strm EXCEPT ![s] =
               [NoStream EXCEPT !.pc = "awaiting", !.key = key, !.cli = c,
                                !.req = NumReqs + 1, !.sub = TRUE,
                                !.sse = <<"status">>]]
  /\ UNCHANGED <<pool, now, call, fwd, sm, disp, web>>

\* the then (result) or the catch (rejection) of the chat.send promise
StreamReact(s) ==
  /\ ReactReady(s)
  /\ LET st == [strm[s] EXCEPT !.reacted = TRUE]
         r == strm[s].req
     IN strm' = [strm EXCEPT ![s] =
          IF req[r].outcome = "ok"
            THEN IF ~st.done
                   THEN Notify([st EXCEPT !.buffer = Append(@, [type |-> "done", key |-> st.key,
                                                                src |-> r, from |-> "result"]),
                                          !.done = TRUE])
                   ELSE st
            ELSE Notify([st EXCEPT !.error = req[r].outcome, !.done = TRUE])]
  /\ UNCHANGED <<ws, cl, req, pool, now, call, fwd, sm, disp, web>>

\* ws.on('message') with an event frame: _dispatchEvent calls every '*' callback
EventFrame(w, f) ==
  /\ EventLoopIdle /\ MicrotasksDone
  /\ ws[w].st = "open" /\ ws[w].owner # Null
  /\ NumItems(Streams) + Cardinality({s \in Streams : Takes(s, ws[w].owner, f)}) <= MaxItems
  /\ strm' = [s \in Streams |->
               IF Listening(s, ws[w].owner) THEN OnEvent(strm[s], f) ELSE strm[s]]
  /\ UNCHANGED <<ws, cl, req, pool, now, call, fwd, sm, disp, web>>

\* the consumer asks for the next value, once its write of the last one is over
ConsumerNext(s) ==
  /\ EventLoopIdle /\ MicrotasksDone
  /\ strm[s].pc = "yielded"
  /\ strm' = [strm EXCEPT ![s] = Resume(strm[s])]
  /\ UNCHANGED <<ws, cl, req, pool, now, call, fwd, sm, disp, web>>

\* the consumer leaves its loop at a yield (break, return or throw): the
\* generator's return() runs the finally block
ConsumerReturn(s) ==
  /\ EventLoopIdle /\ MicrotasksDone
  /\ strm[s].pc = "yielded"
  /\ strm' = [strm EXCEPT ![s] = Finally([strm[s] EXCEPT !.pc = "returned", !.early = TRUE])]
  /\ UNCHANGED <<ws, cl, req, pool, now, call, fwd, sm, disp, web>>

NextStream ==
  \/ \E s \in Streams, key \in SessionKeys : StreamStart(s, key)
  \/ \E s \in Streams : StreamReact(s)
  \/ \E w \in Sockets : \E f \in Frames(w) : EventFrame(w, f)
  \/ \E s \in Streams : ConsumerNext(s)
  \/ \E s \in Streams : ConsumerReturn(s)
  \/ \E r \in Reqs, code \in {"ok"} \cup ErrorCodes : MicrotasksDone /\ RequestResponse(r, code)
  \/ \E r \in Reqs : MicrotasksDone /\ RequestTimeout(r)
  \/ \E w \in Sockets, code \in CloseCodes : MicrotasksDone /\ WsClose(w, code)

SpecStream == InitStream /\ [][NextStream]_vars

\* ---- SessionManager: cache, archiveSet and the Gateway's sessions --------

\* list(token): the Gateway's sessions, each with archived = archiveSet.has(key)
ListFlags(t) == [k \in sm.gw |-> k \in sm.archive[t]]

\* an unarchive that leaves the set alone, to show what C28 owes to the delete
UnarchiveKeeps(set, k) == set

\* this._tokenArchive(token).delete(sessionKey)
UnarchiveSet(set, k) == set \ {k}

\* a method that goes on after a rejected RPC, to show what C38 owes to the
\* await
AfterRpcAlways(ok, failed, done) == done

\* await gatewayRpc.request(...): the statements after it run when the RPC
\* resolved (done); a rejection leaves the method there (failed)
AfterRpc(ok, failed, done) == IF ok THEN done ELSE failed

\* create(token, title): after sessions.reset for a new key the key is cached
\* with its title
SmCreate(t, k, title, ok) ==
  /\ sm' = [AfterRpc(ok, [sm EXCEPT !.trip = NoTrip],
                    [sm EXCEPT !.gw = @ \cup {k}, !.cache[t] = @ \cup {k},
                               !.title[t][k] = title, !.trip = NoTrip])
             EXCEPT !.rpc = IF ok THEN "none" ELSE "create"]
  /\ UNCHANGED <<ws, cl, req, pool, now, call, strm, fwd, disp, web>>

\* delete(token, key) / deleteMany(token, keys): after the RPC the keys leave
\* the cache
SmDeleteMany(t, ks, ok) ==
  /\ ks # {}
  /\ sm' = [AfterRpc(ok, [sm EXCEPT !.trip = NoTrip],
                    [sm EXCEPT !.gw = @ \ ks, !.cache[t] = @ \ ks,
                               !.title[t] = [k \in SessionKeys |-> IF k \in ks THEN "" ELSE @[k]],
                               !.trip = NoTrip])
             EXCEPT !.rpc = IF ok THEN "none" ELSE "delete"]
  /\ UNCHANGED <<ws, cl, req, pool, now, call, strm, fwd, disp, web>>

\* close(token, key): after sessions.delete the key leaves the cache and the
\* archive set
SmClose(t, k, ok) ==
  /\ sm' = [AfterRpc(ok, [sm EXCEPT !.trip = NoTrip],
                    [sm EXCEPT !.gw = @ \ {k}, !.cache[t] = @ \ {k}, !.title[t][k] = "",
                               !.archive[t] = @ \ {k}, !.trip = NoTrip])
             EXCEPT !.rpc = IF ok THEN "none" ELSE "close"]
  /\ UNCHANGED <<ws, cl, req, pool, now, call, strm, fwd, disp, web>>

\* PATCH /api/sessions/:sessionKey with a title: rename(token, key, title)
\* awaits sessions.patch and then sets the title of a cached key; with a
\* boolean `archived` in the body too, archive or unarchive follows in the
\* same try block
SmPatch(t, k, title, hasArchived, archived, ok) ==
  /\ LET renamed == [sm EXCEPT !.title[t][k] = IF k \in sm.cache[t] THEN title ELSE @,
                               !.trip = NoTrip]
     IN sm' = [AfterRpc(ok, [sm EXCEPT !.trip = NoTrip],
                        IF hasArchived
                          THEN [renamed EXCEPT !.archive[t] = IF archived THEN @ \cup {k}
                                                              ELSE UnarchiveSet(@, k)]
                          ELSE renamed)
               EXCEPT !.rpc = IF ok THEN "none" ELSE IF hasArchived THEN "patch" ELSE "rename"]
  /\ UNCHANGED <<ws, cl, req, pool, now, call, strm, fwd, disp, web>>

\* archive(token, key)
SmArchive(t, k) ==
  /\ sm' = [sm EXCEPT !.archive[t] = @ \cup {k}, !.rpc = "none",
                      !.trip = [st |-> "archived", t |-> t, k |-> k,
                                flags |-> ListFlags(t), was |-> k \in sm.archive[t]]]
  /\ UNCHANGED <<ws, cl, req, pool, now, call, strm, fwd, disp, web>>

\* unarchive(token, key)
SmUnarchive(t, k) ==
  /\ sm' = [sm EXCEPT !.archive[t] = UnarchiveSet(@, k), !.rpc = "none",
                      !.trip = IF sm.trip.st = "archived" /\ sm.trip.t = t /\ sm.trip.k = k
                                 THEN [sm.trip EXCEPT !.st = "undone"]
                                 ELSE NoTrip]
  /\ UNCHANGED <<ws, cl, req, pool, now, call, strm, fwd, disp, web>>

\* gcIdle(token, maxIdleMs): idle keys leave the cache
SmGcIdle(t, ks) ==
  /\ ks # {} /\ ks \subseteq sm.cache[t]
  /\ sm' = [sm EXCEPT !.cache[t] = @ \ ks, !.trip = NoTrip, !.rpc = "none",
                      !.title[t] = [k \in SessionKeys |-> IF k \in ks THEN "" ELSE @[k]]]
  /\ UNCHANGED <<ws, cl, req, pool, now, call, strm, fwd, disp, web>>

\* the Gateway's sessions change without the manager learning it: another
\* device, or a create / delete / close whose RPC was rejected or timed out
\* after the Gateway had acted
GatewayChanges(ks) ==
  /\ ks # sm.gw
  /\ sm' = [sm EXCEPT !.gw = ks, !.trip = NoTrip, !.rpc = "none"]
  /\ UNCHANGED <<ws, cl, req, pool, now, call, strm, fwd, disp, web>>

NextSm ==
  \/ \E t \in SmTokens, k \in SessionKeys, title \in {"new"}, ok \in BOOLEAN :
       SmCreate(t, k, title, ok)
  \/ \E t \in SmTokens, ks \in SUBSET SessionKeys, ok \in BOOLEAN : SmDeleteMany(t, ks, ok)
  \/ \E t \in SmTokens, k \in SessionKeys, ok \in BOOLEAN : SmClose(t, k, ok)
  \/ \E t \in SmTokens, k \in SessionKeys, hasArchived, archived, ok \in BOOLEAN :
       SmPatch(t, k, "T1", hasArchived, archived, ok)
  \/ \E t \in SmTokens, k \in SessionKeys : SmArchive(t, k)
  \/ \E t \in SmTokens, k \in SessionKeys : SmUnarchive(t, k)
  \/ \E t \in SmTokens, ks \in SUBSET SessionKeys : SmGcIdle(t, ks)
  \/ \E ks \in SUBSET SessionKeys : GatewayChanges(ks)

SpecSm == Init /\ [][NextSm]_vars

\* ---- RpcClient.subscribeEvent and _dispatchEvent --------------------------

\* the elements of a sequence
Range(q) == {q[i] : i \in 1..Len(q)}

\* a delete that empties the Set, to show what C40 owes to Set.delete
WithoutAll(q, cb) == <<>>

\* Set.delete(cb) on an insertion-ordered Set
Without(q, cb) == SelectSeq(q, LAMBDA x : x # cb)

\* for (const cb of listeners) cb(event), with no try/catch: the callbacks of q
\* are called in order up to the first one that throws, which ends the loop
RECURSIVE RunCallbacks(_, _)
RunCallbacks(q, throwing) ==
  IF q = <<>>
    THEN <<>>
    ELSE IF Head(q) \in throwing
      THEN <<Head(q)>>
      ELSE <<Head(q)>> \o RunCallbacks(Tail(q), throwing)

\* subscribeEvent(name, callback): Set.add keeps a callback already present
SubscribeEvent(n, cb) ==
  /\ cb \notin Range(disp.reg[n])
  /\ disp' = [disp EXCEPT !.names = @ \cup {n}, !.reg[n] = Append(@, cb)]
  /\ UNCHANGED <<ws, cl, req, pool, now, call, strm, fwd, sm, web>>

\* the function subscribeEvent returned: with the Set of the name at hand it
\* deletes the callback, and deletes the name when the Set is left empty
UnsubscribeEvent(n, cb) ==
  /\ cb \in Range(disp.reg[n])
  /\ n \in disp.names
  /\ LET l == Without(disp.reg[n], cb)
     IN disp' = [disp EXCEPT !.reg[n] = l, !.gone = <<n, cb>>,
                             !.names = IF l = <<>> THEN @ \ {n} ELSE @]
  /\ UNCHANGED <<ws, cl, req, pool, now, call, strm, fwd, sm, web>>

\* ws.on('message') with an event frame named n on the open socket w, while
\* the callbacks of `throwing` throw: the name's callbacks, then the '*' ones
DispatchEvent(w, n, throwing) ==
  /\ EventLoopIdle
  /\ ws[w].st = "open"
  /\ LET q == (IF n \in disp.names THEN disp.reg[n] ELSE <<>>)
               \o (IF "*" \in disp.names THEN disp.reg["*"] ELSE <<>>)
     IN disp' = [disp EXCEPT !.name = n, !.due = Range(q), !.after = disp.gone,
                             !.invoked = RunCallbacks(q, throwing)]
  /\ UNCHANGED <<ws, cl, req, pool, now, call, strm, fwd, sm, web>>

NextDispatch ==
  \/ \E n \in ListenerNames, cb \in Callbacks : SubscribeEvent(n, cb)
  \/ \E n \in ListenerNames, cb \in Callbacks : UnsubscribeEvent(n, cb)
  \/ \E w \in Sockets, n \in EventNames, throwing \in SUBSET Callbacks :
       DispatchEvent(w, n, throwing)

SpecDispatch == InitStream /\ [][NextDispatch]_vars

\* ---- EventForwarder: SSE subscribers of a token ---------------------------

\* the frames the Gateway may push: event name, payload.stream, whether
\* payload.data.delta is defined, payload.data.phase, payload.state
RawFrames ==
  [event : {"agent", "chat", "other"}, stream : {"assistant", "lifecycle", "other"},
   delta : BOOLEAN, phase : {"start", "end", "other"}, state : {"final", "delta"}]

\* two of them: an assistant delta, which the handler forwards as a chunk, and
\* a chat delta, which it drops
SomeFrames ==
  {f \in RawFrames :
     /\ f.stream = "assistant" /\ f.phase = "other" /\ f.state = "delta"
     /\ \/ f.event = "agent" /\ f.delta
        \/ f.event = "chat" /\ ~f.delta}

\* a handler that forwards every agent frame as a chunk, to show what C26 owes
\* to the tests on stream and phase
TranslateAll(f) ==
  IF f.event = "agent" THEN "chunk"
  ELSE IF f.event = "chat" /\ f.state = "final" THEN "message-final" ELSE "none"

\* the handler of _ensureListener: the type of the PushEvent it broadcasts for
\* frame f, "none" when it broadcasts nothing
Translate(f) ==
  IF f.event = "agent"
    THEN IF f.stream = "assistant" /\ f.delta
           THEN "chunk"
           ELSE IF f.stream = "lifecycle"
             THEN IF f.phase = "start" THEN "agent-start"
                  ELSE IF f.phase = "end" THEN "agent-end" ELSE "none"
             ELSE "none"
    ELSE IF f.event = "chat"
      THEN IF f.state = "final" THEN "message-final" ELSE "none"
      ELSE "none"

\* _clearSubscription(sub): the stored unsubscribe removes its handler from the
\* '*' set, the stored timer is cleared; nothing else is known to sub
ClearSubscription(f, o) ==
  LET s == f.subs[o]
  IN [f EXCEPT !.lst = IF s.unsub # Null THEN Without(@, s.unsub) ELSE @,
               !.tmr = IF s.timer # Null THEN [@ EXCEPT ![s.timer].on = FALSE] ELSE @,
               !.subs[o] = [s EXCEPT !.unsub = Null, !.client = Null, !.timer = Null]]

\* the getConnection call that the next caller makes
NextCall == CHOOSE k \in Calls : call[k].pc = "idle" /\ \A j \in Calls : j < k => call[j].pc # "idle"

\* _ensureListener(token, sub) is called: it runs up to `await getConnection`.
\* x is the writer whose subscribe() awaits it (Null for a timer callback)
EnsureListener(f, o, x) ==
  [f EXCEPT !.att[NextCall] = [st |-> "started", sub |-> o, wr |-> x]]

\* an _ensureListener is running synchronously or in a microtask that is due:
\* it is about to call getConnection, or getConnection has just settled
FwdBusy ==
  \E k \in Calls : fwd.att[k].st = "started" /\ call[k].pc \in {"idle", "done", "failed"}

\* an I/O event or a timer callback may run
FwdIdle == EventLoopIdle /\ ~FwdBusy

\* the test of subscribe() before it (re)builds the listener
NeedsListener(s) == s.unsub = Null \/ (s.client # Null /\ ~cl[s.client].isConnected)

\* GET /api/events: the route calls subscribe(token, writer) for a new writer
FwdSubscribe(x) ==
  /\ FwdIdle
  /\ fwd.res[x] = "none"
  /\ \A y \in Writers : y < x => fwd.res[y] # "none"
  /\ LET fresh == fwd.map = Null
         o == IF fresh THEN fwd.nsubs + 1 ELSE fwd.map
     IN /\ o \in SubObjs
        /\ LET f1 == [fwd EXCEPT !.map = o, !.nsubs = IF fresh THEN o ELSE @,
                                 !.subs[o].clients = @ \cup {x}]
           IN IF NeedsListener(f1.subs[o])
                THEN /\ \E k \in Calls : call[k].pc = "idle"
                     /\ fwd' = [EnsureListener(ClearSubscription(f1, o), o, x)
                                  EXCEPT !.res[x] = "pending"]
                ELSE fwd' = [f1 EXCEPT !.res[x] = "resolved"]
  /\ UNCHANGED <<ws, cl, req, pool, now, call, strm, sm, disp, web>>

\* stream.onAbort of the route, registered once subscribe() has resolved:
\* unsubscribe(token, writer)
FwdUnsubscribe(x) ==
  /\ FwdIdle
  /\ fwd.res[x] = "resolved"
  /\ LET o == fwd.map
     IN IF o = Null
          THEN fwd' = [fwd EXCEPT !.res[x] = "gone"]
          ELSE LET f1 == [fwd EXCEPT !.subs[o].clients = @ \ {x}, !.res[x] = "gone"]
               IN fwd' = IF f1.subs[o].clients = {}
                           THEN [ClearSubscription(f1, o) EXCEPT !.map = Null]
                           ELSE f1
  /\ UNCHANGED <<ws, cl, req, pool, now, call, strm, sm, disp, web>>

\* `await gatewayRpc.getConnection(token)` of _ensureListener: the call
FwdGetConnection(k) ==
  /\ fwd.att[k].st = "started"
  /\ GetConnStart(k, "tokA")

\* getConnection continues when the handshake it awaits settles
FwdConnSettles(k) ==
  /\ fwd.att[k].st = "started"
  /\ GetConnResume(k)
  /\ req' = req

\* a catch block that never starts the retry timer, to show what C25 owes to it
NeverStartsRetry(s) == FALSE

\* whether the catch block of _ensureListener starts the retry timer
StartsRetry(s) == s.clients # {}

\* _ensureListener after its await. With a client: the handler is added to the
\* '*' set of the client, sub.client, sub.unsubscribe and sub.healthCheckTimer
\* are assigned. In the catch block: _clearSubscription, then the retry timer
\* if there are clients. The subscribe() that awaited it resolves either way.
FwdContinue(k) ==
  /\ fwd.att[k].st = "started"
  /\ call[k].pc \in {"done", "failed"}
  /\ LET o == fwd.att[k].sub
         x == fwd.att[k].wr
         f1 == [fwd EXCEPT !.att[k].st = "settled",
                           !.res = IF x # Null THEN [@ EXCEPT ![x] = "resolved"] ELSE @]
     IN IF call[k].pc = "done"
          THEN fwd' = [f1 EXCEPT !.hnd[k] = [sub |-> o, client |-> call[k].cli],
                                 !.lst = Append(@, k),
                                 !.subs[o].client = call[k].cli,
                                 !.subs[o].unsub = k,
                                 !.tmr[k] = [sub |-> o, kind |-> "health", on |-> TRUE],
                                 !.subs[o].timer = k]
          ELSE LET f2 == ClearSubscription(f1, o)
               IN fwd' = IF StartsRetry(f2.subs[o])
                           THEN [f2 EXCEPT !.tmr[k] = [sub |-> o, kind |-> "retry", on |-> TRUE],
                                           !.subs[o].timer = k]
                           ELSE f2
  /\ UNCHANGED <<ws, cl, req, pool, now, call, strm, sm, disp, web>>

\* a callback of the health-check interval started by _ensureListener i
FwdHealthTick(i) ==
  /\ FwdIdle
  /\ fwd.tmr[i].on /\ fwd.tmr[i].kind = "health"
  /\ LET o == fwd.tmr[i].sub
         s == fwd.subs[o]
     IN IF s.client = Null \/ ~cl[s.client].isConnected
          THEN /\ \E k \in Calls : call[k].pc = "idle"
               /\ fwd' = EnsureListener(ClearSubscription(fwd, o), o, Null)
          ELSE fwd' = fwd
  /\ UNCHANGED <<ws, cl, req, pool, now, call, strm, sm, disp, web>>

\* a callback of the retry interval started by the catch block of
\* _ensureListener i
FwdRetryTick(i) ==
  /\ FwdIdle
  /\ fwd.tmr[i].on /\ fwd.tmr[i].kind = "retry"
  /\ LET o == fwd.tmr[i].sub
         s == fwd.subs[o]
     IN IF s.unsub = Null /\ s.clients # {}
          THEN /\ \E k \in Calls : call[k].pc = "idle"
               /\ fwd' = EnsureListener(fwd, o, Null)
          ELSE fwd' = fwd
  /\ UNCHANGED <<ws, cl, req, pool, now, call, strm, sm, disp, web>>

\* _broadcast(sub, event) for each handler of q in turn: every writer of the
\* handler's sub is given the event (n: the number of the frame)
RECURSIVE Broadcasts(_, _, _, _)
Broadcasts(f, q, n, raw) ==
  IF q = <<>>
    THEN f
    ELSE LET o == f.hnd[Head(q)].sub
             e == [n |-> n, type |-> Translate(raw), raw |-> raw]
             f1 == IF Translate(raw) = "none"
                     THEN f
                     ELSE [f EXCEPT !.log = [x \in Writers |->
                             IF x \in f.subs[o].clients THEN Append(@[x], e) ELSE @[x]]]
         IN Broadcasts(f1, Tail(q), n, raw)

\* the handlers in the '*' set of client c, in insertion order
HandlersOf(c) == SelectSeq(fwd.lst, LAMBDA k : fwd.hnd[k].client = c)

\* ws.on('message') with an event frame on socket w: _dispatchEvent calls the
\* '*' callbacks of the client
FwdEvent(w, raw) ==
  /\ FwdIdle
  /\ ws[w].st = "open" /\ ws[w].owner # Null
  /\ fwd.nframes < MaxFrames
  /\ fwd' = Broadcasts([fwd EXCEPT !.nframes = @ + 1, !.last = <<raw>>],
                       HandlersOf(ws[w].owner), fwd.nframes + 1, raw)
  /\ UNCHANGED <<ws, cl, req, pool, now, call, strm, sm, disp, web>>

\* the forwarder with the pool under it; F: the frames the Gateway pushes. No
\* socket is closed here during its opening handshake: the pool replaces a
\* client of this token only once its socket has closed
NextFwdOf(F) ==
  \/ \E x \in Writers : FwdSubscribe(x)
  \/ \E x \in Writers : FwdUnsubscribe(x)
  \/ \E k \in Calls : FwdGetConnection(k)
  \/ \E k \in Calls : FwdConnSettles(k)
  \/ \E k \in Calls : FwdContinue(k)
  \/ \E i \in Calls : FwdHealthTick(i)
  \/ \E i \in Calls : FwdRetryTick(i)
  \/ \E w \in Sockets, raw \in F : FwdEvent(w, raw)
  \/ \E w \in Sockets : FwdIdle /\ WsOpen(w)
  \/ \E w \in Sockets : FwdIdle /\ WsError(w)
  \/ \E w \in Sockets, code \in {1006} : FwdIdle /\ WsClose(w, code)
  \/ \E w \in Sockets, code \in {"ok"} : FwdIdle /\ ConnectResponse(w, code)

NextFwd == NextFwdOf(SomeFrames)

SpecFwd == Init /\ [][NextFwd]_vars

\* the forwarder with subscribers that stay, over a Gateway that accepts every
\* connection and keeps it, with every frame the Gateway may push
NextTranslate ==
  \/ \E x \in Writers : FwdSubscribe(x)
  \/ \E k \in Calls : FwdGetConnection(k)
  \/ \E k \in Calls : FwdConnSettles(k)
  \/ \E k \in Calls : FwdContinue(k)
  \/ \E w \in Sockets, raw \in RawFrames : FwdEvent(w, raw)
  \/ \E w \in Sockets : FwdIdle /\ WsOpen(w)
  \/ \E w \in Sockets, code \in {"ok"} : FwdIdle /\ ConnectResponse(w, code)

SpecTranslate == Init /\ [][NextTranslate]_vars

\* the forwarder with what the code and the ws library schedule: interval
\* callbacks fire, microtasks run, an opening handshake
\* is bounded by handshakeTimeout, 'close' follows 'error'. Nothing obliges the
\* Gateway to accept a connection or to answer on an open socket.
SpecFwdFair ==
  /\ SpecFwd
  /\ \A i \in Calls : WF_vars(FwdHealthTick(i))
  /\ \A i \in Calls : WF_vars(FwdRetryTick(i))
  /\ \A k \in Calls : WF_vars(FwdGetConnection(k))
  /\ \A k \in Calls : WF_vars(FwdConnSettles(k))
  /\ \A k \in Calls : WF_vars(FwdContinue(k))
  /\ \A w \in Sockets : WF_vars(FwdIdle /\ HandshakeTimeout(w))
  /\ \A w \in Sockets : WF_vars(FwdIdle /\ CloseAfterError(w))

\* ---- one sendStream and one SSE subscriber on the same pooled client -----

\* a frame reaches the callbacks of sendStream (EventFrame) and the handler of
\* the forwarder (FwdEvent), which do not touch each other's state
NextOrder ==
  \/ \E key \in SessionKeys : ~FwdBusy /\ StreamStart(1, key)
  \/ StreamReact(1)
  \/ \E w \in Sockets : \E f \in Frames(w) : ~FwdBusy /\ EventFrame(w, f)
  \/ ~FwdBusy /\ ConsumerNext(1)
  \/ \E r \in Reqs, code \in {"ok"} : ~FwdBusy /\ MicrotasksDone /\ RequestResponse(r, code)
  \/ MicrotasksDone /\ FwdSubscribe(1)
  \/ \E k \in Calls : FwdGetConnection(k)
  \/ \E k \in Calls : FwdConnSettles(k)
  \/ \E k \in Calls : FwdContinue(k)
  \/ \E w \in Sockets, raw \in SomeFrames : MicrotasksDone /\ FwdEvent(w, raw)

SpecOrder == InitStream /\ [][NextOrder]_vars

\* ---- ws.on('message'): frames that are not events -------------------------

\* a handler that passes only frames of type 'res', to show what C31 owes to
\* the test on undefined
HandlesOnlyRes(ty) == ty = "res"

\* the frames that get past `if (msg.type !== undefined && msg.type !== 'res') return`
HandlesType(ty) == ty = "absent" \/ ty = "res"

\* ws.on('message') with a frame of type ty ('res', absent, or another value
\* that is not 'event') and id i, which reports success or carries an error
\* code: the type test, the id test, the connect branch, the pending lookup
Frame(w, ty, i, code) ==
  /\ EventLoopIdle
  /\ ws[w].st \in {"open", "closing"}
  /\ LET c == ws[w].owner
         hit == LookupPending(c, i)
         g == <<[type |-> ty, id |-> i,
                 code |-> IF i = Null \/ hit = {} THEN "" ELSE code,
                 matched |-> IF i = Null THEN {} ELSE hit,
                 isConnect |-> i # Null /\ i = ws[w].connectId]>>
         wg == [ws EXCEPT ![w].got = g]
     IN IF ~HandlesType(ty) \/ i = Null
          THEN /\ ws' = wg
               /\ UNCHANGED <<cl, req, pool, web>>
          ELSE IF ws[w].connectId # Null /\ i = ws[w].connectId
            THEN IF code = "ok"
                   THEN /\ ws' = [wg EXCEPT ![w].connectId = Null, ![w].connRes = "ok",
                                            ![w].promise = IF @ = "pending" THEN "resolved" ELSE @]
                        /\ cl' = NoteHandshake(DoSucceed(cl, w), c, code)
                        /\ UNCHANGED <<req, pool, web>>
                   ELSE LET err == ConnectErrorOf(ErrorObjCode(code, "CONNECT_FAILED"))
                        IN /\ ws' = [DoFail(wg, w, err) EXCEPT ![w].connectId = Null,
                                                               ![w].connRes = VerdictOf(code)]
                           /\ pool' = PoolCatch(w)
                           /\ req' = RejectAllPending(req, c, err)
                           /\ cl' = NoteHandshake([cl EXCEPT ![c].pending = {}], c, code)
            ELSE /\ ws' = wg
                 /\ pool' = pool
                 /\ IF hit = {}
                      THEN UNCHANGED <<req, cl, web>>
                      ELSE LET p == CHOOSE q \in hit : TRUE
                               out == IF code = "ok" THEN "ok"
                                      ELSE RpcErrorOf(ErrorObjCode(code, "RPC_ERROR"))
                           IN /\ req' = [req EXCEPT ![p].outcome = out, ![p].by = i]
                              /\ cl' = [cl EXCEPT ![c].pending = @ \ {p}]
  /\ UNCHANGED <<now, call, strm, fwd, sm, disp, web>>

\* a standalone client whose frames are of any type and carry any id: none
\* (Null), the id of a connect request, the id of a request(), or an id that
\* no request carries
NextFrames ==
  \/ \E c \in Clients : Connect(c)
  \/ \E c \in Clients : Request(c)
  \/ \E w \in Sockets : WsOpen(w)
  \/ \E w \in Sockets, ty \in {"res", "absent", "other"},
        i \in {Null, RequestIdOf(MaxReq + MaxPoolReq + 1)}
                \cup {ConnectIdOf(v) : v \in 1..MaxClientWs}
                \cup {RequestIdOf(r) : r \in 1..MaxReq},
        code \in {"ok", "UNAUTHORIZED"} : Frame(w, ty, i, code)

SpecFrames == InitClient /\ [][NextFrames]_vars

\* ---- a standalone RpcClient with any reconnectMaxRetries ------------------

\* new RpcClient(wsUrl, options) with reconnectMaxRetries 0 (the value that
\* _makeClient gives a pooled client) or MaxBackoff
InitReconnect ==
  /\ ws = [w \in Sockets |-> NoWs]
  /\ \E n \in {0, MaxBackoff} :
       cl = [c \in Clients |-> IF c = 1 THEN [NoClient EXCEPT !.exists = TRUE, !.retries = n]
                                        ELSE NoClient]
  /\ req = [r \in Reqs |-> NoReq]
  /\ pool = [t \in Tokens |-> NoEntry]
  /\ now = 0
  /\ call = [k \in Calls |-> NoCall]
  /\ strm = [s \in Streams |-> NoStream]
  /\ fwd = NoFwd
  /\ sm = NoSm
  /\ disp = NoDisp
  /\ web = NoWeb

SpecReconnect == InitReconnect /\ [][NextClient]_vars

\* ---- the browser's sessionsStore: sendMessage ------------------------------

\* onConnected of the persistent event stream
WebOnConnected(b) ==
  /\ b # web.connected
  /\ web' = [web EXCEPT !.connected = b]
  /\ UNCHANGED <<ws, cl, req, pool, now, call, strm, fwd, sm, disp>>

\* selectSession(sessionKey), up to its await of loadMessages
WebSelectSession(k) ==
  /\ web.cur # k
  /\ web' = [web EXCEPT !.cur = k, !.text = FALSE, !.skey = ""]
  /\ UNCHANGED <<ws, cl, req, pool, now, call, strm, fwd, sm, disp>>

\* onEvent of the persistent event stream with a chunk, agent-start or
\* message-final of session k
WebOnEvent(type, k) ==
  /\ web.connected
  /\ web' = CASE type = "chunk" /\ web.skey = k /\ web.cur = k ->
                   [web EXCEPT !.text = TRUE, !.mode = "push"]
              [] type = "agent-start" /\ web.cur = k /\ web.sending ->
                   [web EXCEPT !.skey = k, !.text = FALSE, !.mode = "push"]
              [] type = "message-final" /\ web.skey = k ->
                   [web EXCEPT !.text = FALSE, !.skey = "", !.sending = FALSE]
              [] OTHER -> web
  /\ UNCHANGED <<ws, cl, req, pool, now, call, strm, fwd, sm, disp>>

\* sendMessage(text, images), up to its first await: without a current session
\* it returns false; with the event stream connected it makes POST /messages
\* (push mode), otherwise it calls streamMessage
WebSendMessage ==
  /\ web.pc \in {"idle", "returned"}
  /\ LET call0 == [web EXCEPT !.key = web.cur, !.gotChunk = FALSE, !.failedBefore = FALSE,
                              !.timer = FALSE, !.opened = FALSE, !.posts = 0]
         head == [call0 EXCEPT !.sending = TRUE, !.skey = web.cur, !.text = FALSE,
                               !.ret = "none"]
     IN web' = IF web.cur = ""
                 THEN [call0 EXCEPT !.pc = "returned", !.ret = "false"]
                 ELSE IF web.connected
                   THEN [head EXCEPT !.mode = "push", !.posts = 1, !.pc = "pushPost"]
                   ELSE [head EXCEPT !.mode = "idle", !.pc = "streaming"]
  /\ UNCHANGED <<ws, cl, req, pool, now, call, strm, fwd, sm, disp>>

\* the answer to POST /messages: in push mode a failure returns false and a
\* success arms pushTimeout and the 200 ms check; in fallback mode
\* sendingMessage is cleared, then a failure returns false and a success goes
\* on to waitForAssistantReply
WebPostReply(ok) ==
  /\ web.pc \in {"pushPost", "fallbackPost"}
  /\ web' = IF web.pc = "pushPost"
              THEN IF ok
                THEN [web EXCEPT !.timer = TRUE, !.pc = "pushWait"]
                ELSE [web EXCEPT !.sending = FALSE, !.text = FALSE, !.skey = "",
                                 !.pc = "returned", !.ret = "false"]
              ELSE IF ok
                THEN [web EXCEPT !.sending = FALSE, !.pc = "reload"]
                ELSE [web EXCEPT !.sending = FALSE, !.pc = "returned", !.ret = "false"]
  /\ UNCHANGED <<ws, cl, req, pool, now, call, strm, fwd, sm, disp>>

\* pushTimeout fires, ASSISTANT_POLL_TIMEOUT_MS after the POST of push mode
WebPushTimeout ==
  /\ web.pc = "pushWait" /\ web.timer
  /\ web' = IF web.sending /\ web.skey = web.key
              THEN [web EXCEPT !.timer = FALSE, !.text = FALSE, !.skey = "",
                               !.sending = FALSE]
              ELSE [web EXCEPT !.timer = FALSE]
  /\ UNCHANGED <<ws, cl, req, pool, now, call, strm, fwd, sm, disp>>

\* the 200 ms check of push mode finds the wait over: it clears itself and
\* pushTimeout, and sendMessage returns true
WebInterval ==
  /\ web.pc = "pushWait"
  /\ ~web.sending \/ web.skey # web.key
  /\ web' = [web EXCEPT !.timer = FALSE, !.pc = "returned", !.ret = "true"]
  /\ UNCHANGED <<ws, cl, req, pool, now, call, strm, fwd, sm, disp>>

\* the for await over streamMessage gets its next event (type, and code of an
\* error), or the end of the generator: the loop body, and after a break or
\* the end the statements up to the next await. The status event is
\* streamMessage's 'stream-open', its first event when POST /messages/stream
\* was answered with an event stream; chunk, done and the end come after it
WebStreamEvent(type, code) ==
  /\ web.pc = "streaming"
  /\ type = "status" => ~web.opened
  /\ type \in {"chunk", "done", "end"} => web.opened
  /\ LET got == [web EXCEPT !.opened = @ \/ type = "status"]
         brk(w) == IF w.gotChunk /\ ~w.failedBefore
                     THEN [w EXCEPT !.pc = "reload"]
                     ELSE [w EXCEPT !.mode = "fallback", !.posts = @ + 1,
                                    !.pc = "fallbackPost"]
     IN web' = CASE type = "end" -> brk(got)
                 [] type # "end" /\ web.cur # web.key -> brk(got)
                 [] type = "status" /\ web.cur = web.key -> got
                 [] type = "chunk" /\ web.cur = web.key ->
                      [got EXCEPT !.gotChunk = TRUE, !.mode = "stream", !.text = TRUE]
                 [] type = "done" /\ web.cur = web.key ->
                      [got EXCEPT !.mode = "stream", !.text = FALSE, !.skey = "",
                                  !.pc = "reload"]
                 [] type = "error" /\ web.cur = web.key /\ code = "UNAUTHORIZED" ->
                      [got EXCEPT !.sending = FALSE, !.text = FALSE, !.skey = "",
                                  !.pc = "returned", !.ret = "false"]
                 [] type = "error" /\ web.cur = web.key /\ code # "UNAUTHORIZED" ->
                      brk([got EXCEPT !.failedBefore = ~web.gotChunk, !.text = FALSE,
                                      !.skey = ""])
  /\ UNCHANGED <<ws, cl, req, pool, now, call, strm, fwd, sm, disp>>

\* loadMessages / waitForAssistantReply at the end of sendMessage are over:
\* sendingMessage is cleared and sendMessage returns true
WebReloaded ==
  /\ web.pc = "reload"
  /\ web' = [web EXCEPT !.sending = FALSE, !.pc = "returned", !.ret = "true"]
  /\ UNCHANGED <<ws, cl, req, pool, now, call, strm, fwd, sm, disp>>

NextWeb ==
  \/ \E b \in BOOLEAN : WebOnConnected(b)
  \/ \E k \in SessionKeys : WebSelectSession(k)
  \/ \E type \in {"chunk", "agent-start", "message-final"}, k \in SessionKeys :
       WebOnEvent(type, k)
  \/ WebSendMessage
  \/ \E ok \in BOOLEAN : WebPostReply(ok)
  \/ WebPushTimeout
  \/ WebInterval
  \/ \E type \in {"status", "chunk", "done", "error", "end"},
        code \in {"UNAUTHORIZED", "STREAMING_UNAVAILABLE"} : WebStreamEvent(type, code)
  \/ WebReloaded

SpecWeb == Init /\ [][NextWeb]_vars

\* ---- the claims -----------------------------------------------------------

Failures == {"UNAUTHORIZED", "GATEWAY_CONNECT_FAILED"}

\* C1: on every WebSocket the first frame sent is the connect request, and a
\* socket carries an RPC frame only if its own connect response has been
\* received as a success. (SpecClient)
C1_HandshakeBeforeRpc ==
  \A w \in Sockets :
    /\ Len(ws[w].sent) > 0 => ws[w].sent[1].method = "connect"
    /\ (\E i \in 1..Len(ws[w].sent) : ws[w].sent[i].method = "rpc") => ws[w].connRes = "ok"

\* C2: while the getConnection(T) call that found no entry still awaits the
\* handshake of the client it built, and nobody has closed that client, every
\* getConnection(T) call started after it waits for that same client: no
\* second RpcClient is created. (Spec)
C2_OneClientPerBatch ==
  \A j \in Calls, k \in Calls :
    ( /\ j < k
      /\ call[j].pc = "awaitNew" /\ call[j].saw = Null
      /\ ConnectPromise(call[j].cli) = "pending"
      /\ ~cl[call[j].cli].closed
      /\ call[k].pc # "idle" /\ call[k].token = call[j].token )
    => call[k].cli = call[j].cli

\* C3: the getConnection(T) calls that found the same pool entry and did not
\* get that entry's client all got one and the same replacement: the entry
\* is replaced at most once. (Spec)
C3_OneReplacement ==
  \A j \in Calls, k \in Calls :
    ( /\ call[j].saw # Null /\ call[j].saw = call[k].saw
      /\ call[j].cli # call[j].saw /\ call[k].cli # call[k].saw )
    => call[j].cli = call[k].cli

\* C4: a getConnection call that has returned a client returned one whose
\* connect handshake has succeeded; it never returns a client that is still
\* handshaking or whose handshake failed. (Spec)
C4_OnlyConnectedHandedOut ==
  \A k \in Calls :
    call[k].pc = "done" => ConnectPromise(call[k].cli) = "resolved"

\* C4 witness: a call was handed the client of the entry it found, and another
\* call was refused because the handshake it waited for failed
C4_Witness ==
  /\ \E k \in Calls : call[k].pc = "done" /\ call[k].saw = call[k].cli
  /\ \E k \in Calls : call[k].pc = "failed" /\ call[k].res \in Failures

C10_FailedSocketClosed ==
  \A w \in Sockets : ws[w].promise \in Failures => ws[w].st # "open"

\* C11: a request on a pooled client that a response rejected with
\* UNAUTHORIZED invalidates the pool entry of that token: the pool no longer
\* holds that client, so the next getConnection builds a new one. (Spec)
C11_AuthErrorInvalidates ==
  \A r \in Reqs :
    ( /\ req[r].by # Null /\ req[r].outcome = "UNAUTHORIZED"
      /\ cl[req[r].client].token \in Tokens )
    => pool[cl[req[r].client].token].client # req[r].client

\* C12: every pending request() settles; the step that settles it without a
\* response, a close() or a socket event is its timeout, which rejects with
\* GATEWAY_RPC_ERROR and removes the pending entry; a settled request is not
\* in the pending map and never changes again, so a response that arrives
\* later is ignored. (SpecClientFair)
C12_RequestSettles ==
  /\ \A r \in Reqs : (req[r].outcome = "pending") ~> (req[r].outcome # "pending")
  /\ [][\A r \in Reqs :
          ( /\ req[r].outcome = "pending" /\ req'[r].outcome # "pending"
            /\ req'[r].by = Null /\ ~req'[r].atClose /\ ws' = ws )
          => ( /\ req'[r].outcome = "GATEWAY_RPC_ERROR"
               /\ r \notin cl'[req[r].client].pending )]_vars
  /\ [][\A r \in Reqs :
          req[r].outcome \notin {"none", "pending"}
          => (req'[r] = req[r] /\ r \notin cl'[req[r].client].pending)]_vars

\* C12 witness: a request whose frame was sent has timed out while its socket
\* is still open with an accepted connect, so its response can still arrive
C12_Witness ==
  \E r \in Reqs :
    /\ req[r].outcome = "GATEWAY_RPC_ERROR" /\ req[r].by = Null
    /\ req[r].ws # Null
    /\ ws[req[r].ws].st = "open" /\ ws[req[r].ws].connRes = "ok"

\* C13: every connect() call settles: the promise of every WebSocket's
\* handshake is eventually resolved or rejected, also when the Gateway accepts
\* the upgrade and never answers the connect request. (SpecClientFair)
C13_ConnectSettles ==
  \A w \in Sockets : (ws[w].promise = "pending") ~> (ws[w].promise # "pending")

\* C14: the close of a WebSocket whose handshake was refused with an auth-class
\* error arms no reconnect timer, and no reconnect timer is armed on a client
\* after close(). (SpecClient)
C14_NoReconnectAfterAuth ==
  [][\A w \in Sockets :
       ( /\ ws[w].owner # Null
         /\ ws[w].st # "closed" /\ ws'[w].st = "closed"
         /\ (ws[w].promise = "UNAUTHORIZED" \/ cl[ws[w].owner].closed) )
       => cl'[ws[w].owner].timers <= cl[ws[w].owner].timers]_vars

\* C15: a finished verifyToken returned true exactly when the handshake of its
\* client succeeded, false exactly when it was rejected with UNAUTHORIZED, and
\* threw the error otherwise; its client has been closed and holds no socket
\* that is open or opening; and no step of a verifyToken or of its client's
\* socket changes the pool. (SpecVerify)
C15_VerifyToken ==
  /\ [](\A k \in Calls :
          call[k].pc = "verified" =>
            /\ (call[k].res = "true") = (ConnectPromise(call[k].cli) = "resolved")
            /\ (call[k].res = "false") = (ConnectPromise(call[k].cli) = "UNAUTHORIZED")
            /\ call[k].res \in {"true", "false", "GATEWAY_CONNECT_FAILED"}
            /\ cl[call[k].cli].closed /\ cl[call[k].cli].ws = Null
            /\ \A w \in Sockets :
                 ws[w].owner = call[k].cli => ws[w].st \notin {"connecting", "open", "rejected"})
  /\ [][( \/ \E k \in Calls : call'[k] # call[k] /\ call'[k].pc \in {"awaitVerify", "verified"}
          \/ \E w \in Sockets : /\ ws'[w] # ws[w]
                                /\ cl'[ws'[w].owner].token = "oneshot" )
        => pool' = pool]_vars

\* C15 witness: beside a pooled client of the token, one verifyToken returned
\* true and another returned false
C15_Witness ==
  /\ \E t \in Tokens : pool[t].client # Null
  /\ \E j \in Calls, k \in Calls :
       /\ call[j].pc = "verified" /\ call[j].res = "true"
       /\ call[k].pc = "verified" /\ call[k].res = "false"

\* C16: whenever a started sendStream generator has finished (it returned
\* after yielding Done, it threw the RPC error, or its consumer left at a
\* yield), its '*' listener is no longer registered on the RpcClient.
\* (SpecStream)
C16_ListenerRemoved ==
  \A s \in Streams :
    strm[s].pc \in {"returned", "threw"} => ~Listening(s, strm[s].cli)

\* one generator has thrown the RPC error while another has been left early
\* by its consumer
C16_Witness ==
  \E s, u \in Streams :
    /\ strm[s].pc = "threw" /\ strm[s].error # "none"
    /\ strm[u].pc = "returned" /\ strm[u].early

\* C17: a sendStream generator yields at most one Done and yields nothing
\* after it: in what a generator has yielded, a Done stands only in the last
\* place, whether it came from the chat final event or from the chat.send
\* result. (SpecStream)
C17_OneDoneAndLast ==
  \A s \in Streams :
    \A i \in 1..Len(strm[s].out) :
      strm[s].out[i].type = "done" => i = Len(strm[s].out)

\* C18: the SSE response of POST /stream starts with the status event and
\* holds at most one terminal event (done or error), with nothing after it;
\* once the generator of a drained stream has finished, one terminal event
\* has been written. (SpecStream)
C18_OneTerminalEvent ==
  \A s \in Streams :
    LET e == strm[s].sse
    IN /\ strm[s].pc # "idle" => (Len(e) > 0 /\ e[1] = "status")
       /\ \A i \in 1..Len(e) :
            /\ i > 1 => e[i] # "status"
            /\ e[i] \in {"done", "error"} => i = Len(e)
       /\ (strm[s].pc \in {"returned", "threw"} /\ ~strm[s].early)
            => e[Len(e)] \in {"done", "error"}

\* C19: concurrent sendStream calls are independent: every value a generator
\* has buffered or yielded was produced for its own chat.send, never for the
\* chat.send of another call. (SpecStream)
C19_OwnValuesOnly ==
  \A s \in Streams :
    /\ \A i \in 1..Len(strm[s].out) : strm[s].out[i].src \in {Null, strm[s].req}
    /\ \A i \in 1..Len(strm[s].buffer) : strm[s].buffer[i].src \in {Null, strm[s].req}

\* C20: a sendStream for sessionKey K never buffers or yields a Chunk or a
\* Done derived from an event frame that carries a sessionKey other than K,
\* while streams of other sessions share the pooled WebSocket. (SpecStream)
C20_OtherSessionIgnored ==
  \A s \in Streams :
    /\ \A i \in 1..Len(strm[s].out) :
         strm[s].out[i].from = "event" => strm[s].out[i].key \in {strm[s].key, "none"}
    /\ \A i \in 1..Len(strm[s].buffer) :
         strm[s].buffer[i].from = "event" => strm[s].buffer[i].key \in {strm[s].key, "none"}

\* two streams of different sessions share the client; the later one has
\* yielded a chunk and a Done produced for its own chat.send, so both frames
\* were dispatched to the listener of the earlier one, which is still
\* subscribed and waiting and has taken neither
C20_Witness ==
  \E s, u \in Streams :
    /\ s < u /\ strm[s].cli = strm[u].cli /\ strm[s].key # strm[u].key
    /\ strm[s].pc = "awaiting" /\ strm[s].sub /\ strm[s].out = <<>>
    /\ Len(strm[u].out) = 2
    /\ strm[u].out[1].type = "chunk" /\ strm[u].out[1].src = strm[u].req
    /\ strm[u].out[2].type = "done" /\ strm[u].out[2].from = "event"
    /\ strm[u].out[2].key = strm[u].key

\* C30: a getConnection(T) call that finds an entry whose age has reached the
\* TTL, or whose client is not connected once the awaited handshake promise is
\* fulfilled, closes that client and puts a newly built client in the pool,
\* which is the one it goes on to wait for; and the client a call returns is
\* connected at the moment it is returned. (Spec)
C30_StaleOrDownReplaced ==
  [][\A k \in Calls :
       LET t == call'[k].token
           old == IF call[k].pc = "idle" THEN pool[t].client ELSE call[k].cli
           new == call'[k].cli
           found == /\ call[k].pc = "idle" /\ call'[k].pc # "idle"
                    /\ call'[k].pc # "awaitVerify"
                    /\ pool[t].client # Null
                    /\ now - pool[t].createdAt >= CONNECTION_TTL_MS
           down == /\ call[k].pc = "awaitEntry" /\ call'[k].pc # "awaitEntry"
                   /\ ConnectPromise(call[k].cli) = "resolved"
                   /\ ~cl[call[k].cli].isConnected
       IN /\ (found \/ down) =>
               /\ call'[k].pc = "awaitNew"
               /\ new # old /\ ~cl[new].exists /\ cl'[new].exists
               /\ cl'[old].closed
               /\ pool'[t].client = new
          /\ call[k].pc = "awaitNew" => new = call[k].cli
          /\ (call[k].pc # "done" /\ call'[k].pc = "done") => cl'[new].isConnected
    ]_vars

\* one call replaced a client that had lost its connection, a later call
\* replaced an entry of TTL age, and each was handed the client it built
C30_Witness ==
  \E j, k \in Calls :
    /\ j < k
    /\ call[j].pc = "done" /\ call[j].saw # Null /\ call[j].cli # call[j].saw
    /\ call[k].pc = "done" /\ call[k].saw = call[j].cli /\ call[k].cli # call[k].saw
    /\ pool[call[k].token] = [client |-> call[k].cli, createdAt |-> CONNECTION_TTL_MS]
    /\ cl[call[k].saw].closed

\* C28 as stated: after archive(T,K) directly followed by unarchive(T,K),
\* list(T) reports the archived flags it reported before the two calls,
\* whatever the archive state was before. (SpecSm)
C28_AsStated ==
  sm.trip.st = "undone" => ListFlags(sm.trip.t) = sm.trip.flags

\* C28 amended: after archive(T,K) directly followed by unarchive(T,K), with
\* K not archived before the two calls, list(T) reports the archived flags it
\* reported before them. (SpecSm)
C28_RoundTripWhenUnarchived ==
  (sm.trip.st = "undone" /\ ~sm.trip.was) => ListFlags(sm.trip.t) = sm.trip.flags

\* the round trip was made on a listed key that was not archived, while
\* another listed key of the token was
C28_Witness ==
  /\ sm.trip.st = "undone" /\ ~sm.trip.was
  /\ sm.trip.k \in sm.gw
  /\ \E k \in sm.gw : k # sm.trip.k /\ k \in sm.archive[sm.trip.t]

\* C29: the archive set of a token holds only keys of sessions known for that
\* token, in the manager's cache or among the Gateway's sessions. (SpecSm)
C29_ArchiveOnlyKnown ==
  \A t \in SmTokens : sm.archive[t] \subseteq (sm.cache[t] \cup sm.gw)

\* C27: on an event frame the RpcClient invokes every callback registered
\* under the frame's event name and every callback registered under '*',
\* also when one of the callbacks throws. (SpecDispatch)
C27_EveryCallbackInvoked ==
  disp.due \subseteq Range(disp.invoked)

\* C22: a frame that matches a translation rule is written at most once to
\* each subscriber, and the forwarder has at most one '*' listener for the
\* token, whatever subscribers joined and whatever retries or re-attachments
\* took place
C22_AtMostOnce ==
  /\ Len(fwd.lst) <= 1
  /\ \A x \in Writers : \A i, j \in 1..Len(fwd.log[x]) :
       fwd.log[x][i].n = fwd.log[x][j].n => i = j

\* C23: whenever the token has no subscriber, the forwarder holds no map entry
\* for it, no handler of it is in the '*' set of any client, and no timer of
\* it is running
C23_NothingLeft ==
  (fwd.map = Null \/ fwd.subs[fwd.map].clients = {}) =>
     /\ fwd.map = Null
     /\ fwd.lst = <<>>
     /\ \A i \in Calls : ~fwd.tmr[i].on

C26_OnlyRuleFrames ==
  /\ \A x \in Writers : \A i \in 1..Len(fwd.log[x]) :
       LET e == fwd.log[x][i]
           f == e.raw
       IN \/ e.type = "chunk" /\ f.event = "agent" /\ f.stream = "assistant" /\ f.delta
          \/ e.type = "agent-start" /\ f.event = "agent" /\ f.stream = "lifecycle" /\ f.phase = "start"
          \/ e.type = "agent-end" /\ f.event = "agent" /\ f.stream = "lifecycle" /\ f.phase = "end"
          \/ e.type = "message-final" /\ f.event = "chat" /\ f.state = "final"
  /\ \A f \in Range(fwd.last) :
       ~ \/ f.event = "agent" /\ f.stream = "assistant" /\ f.delta
         \/ f.event = "agent" /\ f.stream = "lifecycle" /\ f.phase \in {"start", "end"}
         \/ f.event = "chat" /\ f.state = "final"
       => \A x \in Writers : \A i \in 1..Len(fwd.log[x]) : fwd.log[x][i].n # fwd.nframes

\* a subscriber was given an agent-end for the first frame, and nothing for
\* the second: an agent frame of stream assistant without a delta, whose
\* phase is end
C26_Witness ==
  /\ Len(fwd.log[1]) = 1
  /\ fwd.log[1][1].type = "agent-end" /\ fwd.log[1][1].n = 1
  /\ fwd.nframes = 2
  /\ \E f \in Range(fwd.last) :
       f.event = "agent" /\ f.stream = "assistant" /\ ~f.delta /\ f.phase = "end"

\* C24: once the client that the token's listener is attached to has dropped
\* while a subscriber remains, the forwarder keeps retrying until its listener
\* is attached to a connected client: from a drop seen after the first
\* _ensureListener, either the listener is attached again, or the last
\* subscriber has left, or further _ensureListener attempts are made, one after
\* the other, as far as the calls counted here go
C24_KeepsRetrying ==
  LET o == fwd.map
      Subscribed == o # Null /\ fwd.subs[o].clients # {}
      Dropped == /\ Subscribed /\ fwd.subs[o].client # Null
                 /\ ~cl[fwd.subs[o].client].isConnected
      Attached == /\ Subscribed /\ fwd.subs[o].unsub # Null
                  /\ cl[fwd.subs[o].client].isConnected
      Attempts == Cardinality({k \in Calls : fwd.att[k].st # "none"})
  IN (Dropped /\ Attempts = 1) ~> (Attached \/ ~Subscribed \/ Attempts = MaxCalls)

\* C21: each consumer gets its values in the order in which their frames were
\* received. For a sendStream: the values yielded so far followed by the
\* values still buffered are the values in the order of their frames, a step
\* only adds to the end of them, and what has been yielded stays yielded. For
\* an SSE writer: the frame numbers of what it was given never decrease.
C21_InOrder ==
  [][/\ \A s \in Streams :
          LET a == strm[s].out \o strm[s].buffer
              b == strm'[s].out \o strm'[s].buffer
          IN strm[s].pc # "idle" =>
               /\ Len(strm'[s].out) >= Len(strm[s].out)
               /\ SubSeq(strm'[s].out, 1, Len(strm[s].out)) = strm[s].out
               /\ Len(b) \in {Len(a), Len(a) + 1}
               /\ SubSeq(b, 1, Len(a)) = a
     /\ \A x \in Writers : \A i, j \in 1..Len(fwd.log'[x]) :
          i < j => fwd.log'[x][i].n <= fwd.log'[x][j].n]_vars

\* the consumer of the stream was given a chunk and then the done that was
\* buffered behind a second chunk, and the SSE writer was given two frames
C21_Witness ==
  /\ Len(strm[1].out) = 3
  /\ strm[1].out[1].type = "chunk" /\ strm[1].out[2].type = "chunk"
  /\ strm[1].out[3].type = "done"
  /\ Len(fwd.log[1]) = 2 /\ fwd.log[1][1].n = 1 /\ fwd.log[1][2].n = 2

\* C36: isConnected is true only while the client holds an open WebSocket
\* whose handshake has succeeded: once close() has returned, and until
\* connect() is called again, isConnected is false
C36_ClosedNotConnected ==
  \A c \in Clients : cl[c].closed => ~cl[c].isConnected

\* C31 as stated: a non-event frame whose id matches a pending request settles
\* that request, whatever its type
C31_AsStated ==
  \A w \in Sockets : \A g \in Range(ws[w].got) :
    \A p \in g.matched : req[p].outcome # "pending"

\* C31: a non-event frame of type 'res' or without a type whose id matches a
\* pending request settles that request; a frame of another type, a frame
\* without an id, and a frame whose id matches neither a pending request nor
\* the connect request of its socket leave every request, the client, its
\* socket and the pool as they were
C31_TypedFrames ==
  [][\A w \in Sockets :
       ws'[w].got # ws[w].got =>
         \A g \in Range(ws'[w].got) :
           /\ (g.type \in {"res", "absent"} /\ g.id # Null) =>
                \A p \in g.matched :
                  /\ req'[p].by = g.id
                  /\ req'[p].outcome = IF g.code = "ok" THEN "ok" ELSE RpcErrorOf(g.code)
                  /\ p \notin cl'[ws[w].owner].pending
           /\ (g.type = "other" \/ g.id = Null \/ (g.matched = {} /\ ~g.isConnect)) =>
                /\ UNCHANGED <<req, cl, pool, web>>
                /\ ws' = [ws EXCEPT ![w].got = <<g>>]]_vars

\* a frame without a type has settled the pending request whose id it carries
C31_Witness ==
  \E w \in Sockets : \E g \in Range(ws[w].got) :
    /\ g.type = "absent" /\ g.matched # {}
    /\ \A p \in g.matched : req[p].by = g.id /\ req[p].outcome = "ok"

C35_OwnEntryOnly ==
  \A c \in Clients :
    ( /\ cl[c].exists /\ cl[c].token \in Tokens
      /\ ~cl[c].wasClosed
      /\ ConnectPromise(c) \in {"pending", "resolved"} )
    => pool[cl[c].token].client = c

\* C37: a getConnection call leaves alone a client that is connected over an
\* open socket and has a request of another caller in flight: it does not
\* close the client and does not reject the request
C37_InUseNotClosed ==
  [][call' # call =>
       \A c \in Clients :
         ( /\ cl[c].isConnected /\ ~cl[c].closed
           /\ cl[c].ws # Null /\ ws[cl[c].ws].st = "open"
           /\ cl[c].pending # {} )
         => /\ ~cl'[c].closed
            /\ \A r \in cl[c].pending : req'[r].outcome = "pending"]_vars

\* C39: from the moment the chat.send frame of a sendStream is on the socket,
\* and until the stream is over, its callback is in the '*' set of the client:
\* an event frame of its session that the Gateway pushes on that socket is
\* taken by the stream
C39_ListenerBeforeSend ==
  \A s \in Streams :
    LET r == strm[s].req
        w == req[r].ws
        f == [kind |-> "chunk", key |-> strm[s].key, src |-> r]
    IN ( /\ r # Null /\ w # Null
         /\ strm[s].pc \in {"awaiting", "yielded"} /\ ~strm[s].done
         /\ ws[w].st = "open"
         /\ EventLoopIdle /\ MicrotasksDone
         /\ NumItems(Streams) + MaxStreams <= MaxItems )
       => /\ strm[s].sub /\ strm[s].cli = ws[w].owner
          /\ ENABLED ( /\ EventFrame(w, f)
                       /\ Len(strm'[s].buffer) + Len(strm'[s].out)
                            = Len(strm[s].buffer) + Len(strm[s].out) + 1 )

\* the stream was given a chunk that the Gateway pushed before it answered
\* chat.send
C39_Witness ==
  \E s \in Streams :
    /\ strm[s].req # Null /\ req[strm[s].req].outcome = "pending"
    /\ Len(strm[s].out) = 1 /\ strm[s].out[1].type = "chunk"
    /\ strm[s].out[1].src = strm[s].req

\* C40: the function subscribeEvent returned takes its own callback out of the
\* Set of its own name and nothing else: the other callbacks of that name keep
\* their order, the Sets of the other names are as they were, and the next
\* event frame is due to every callback still registered; no name of the
\* listener table has an empty Set
C40_OnlyOwnRegistration ==
  [][ /\ \A n \in ListenerNames : n \in disp'.names <=> disp'.reg[n] # <<>>
      /\ disp'.gone # disp.gone =>
           LET n == disp'.gone[1]
               cb == disp'.gone[2]
           IN /\ cb \in Range(disp.reg[n])
              /\ disp'.reg[n] = SelectSeq(disp.reg[n], LAMBDA x : x # cb)
              /\ \A m \in ListenerNames \ {n} : disp'.reg[m] = disp.reg[m]
      /\ (disp'.reg = disp.reg /\ disp' # disp) =>
           disp'.due = Range(disp.reg[disp'.name]) \cup Range(disp.reg["*"]) ]_vars

\* callback 1 was taken out of the '*' set, where callback 2 stayed, and the
\* next event frame was given to callback 2; the name "agent", left without
\* callbacks by an unsubscribe, is no key of the table
C40_Witness ==
  /\ disp.after = <<"*", 1>>
  /\ disp.reg["*"] = <<2>> /\ disp.due = {2} /\ disp.invoked = <<2>>
  /\ disp.gone[1] = "agent" /\ "agent" \notin disp.names

\* C38: a create, rename, close, delete or deleteMany whose Gateway RPC is
\* rejected leaves the cache (keys and titles) and the archive sets of every
\* token as they were; so does a PATCH with title and archived whose rename is
\* rejected
C38_FailedRpcChangesNothing ==
  [][sm'.rpc # "none" =>
       /\ sm'.cache = sm.cache /\ sm'.title = sm.title
       /\ sm'.archive = sm.archive]_vars

\* a PATCH with title and archived was rejected at the rename: the key is
\* cached under the title it was created with and is not archived, beside an
\* archived key
C38_Witness ==
  /\ sm.rpc = "patch"
  /\ \E t \in SmTokens : \E k \in sm.cache[t] :
       /\ sm.title[t][k] = "new" /\ k \notin sm.archive[t]
       /\ \E j \in sm.cache[t] \ {k} : j \in sm.archive[t] /\ sm.title[t][j] = "T1"

\* C33: a message whose POST /messages/stream was answered with an open
\* stream is not sent again with POST /messages by the same sendMessage call
C33_NoResend == ~(web.opened /\ web.posts > 0)

\* C34: a sendMessage call that has returned has left sendingMessage false
C34_ReturnedNotSending == (web.pc = "returned" /\ web.ret = "true") => ~web.sending

====
